---- MODULE Spec2Model ----
(***************************************************************************)
(* The draft coordination core of playoff-draft (src/server.js): the       *)
(* single shared draftState, the socket.io event handlers that mutate it   *)
(* and the messages each handler emits.  One action per handler; the       *)
(* Node event loop runs each handler to completion, so an action is one    *)
(* atomic step.                                                            *)
(***************************************************************************)
EXTENDS Integers, Sequences, FiniteSets, TLC

(***************************************************************************)
(* Bounds of the model (not program constants).                            *)
(***************************************************************************)
\* number of accepted undo-pick requests in one run
MaxUndo == 1
\* number of chat messages accepted in one run
MaxChat == 1
\* number of chat messages accepted in one run of the chat specification
MaxPosts == 2

(***************************************************************************)
(* Program constants.                                                      *)
(***************************************************************************)
Rounds == 7
MaxTeams == 8
LimitQB == 1
LimitRB == 2
LimitWRTE == 3
LimitK == 1
ChatCapacity == 100
ChatMaxLen == 200

(***************************************************************************)
(* Strings that the code inspects character by character (names, chat      *)
(* text) are sequences of one-character strings, so that trim() and        *)
(* toLowerCase() are computed, not assumed.                                *)
(***************************************************************************)
UpperChars == <<"A", "B", "C", "D", "Z">>
LowerChars == <<"a", "b", "c", "d", "z">>

toLowerChar(c) ==
    IF \E i \in 1..Len(UpperChars) : UpperChars[i] = c
    THEN LowerChars[CHOOSE i \in 1..Len(UpperChars) : UpperChars[i] = c]
    ELSE c

toLowerCase(str) == [i \in 1..Len(str) |-> toLowerChar(str[i])]

RECURSIVE trimStart(_)
trimStart(str) ==
    IF str # <<>> /\ Head(str) = " " THEN trimStart(Tail(str)) ELSE str

RECURSIVE trimEnd(_)
trimEnd(str) ==
    IF str # <<>> /\ str[Len(str)] = " "
    THEN trimEnd(SubSeq(str, 1, Len(str) - 1))
    ELSE str

trim(str) == trimEnd(trimStart(str))

\* String.prototype.substring(0, n)
substring0(str, n) == SubSeq(str, 1, IF Len(str) < n THEN Len(str) ELSE n)

\* the one privileged display name, 'BD Crushers'
PrivilegedName == <<"B", "D", " ", "C", "r", "u", "s", "h", "e", "r", "s">>

(***************************************************************************)
(* Identifiers.                                                            *)
(***************************************************************************)
NoSocket == "null"

\* DRAFT_ID: the id the server process generates when it starts, and the id
\* of an earlier process that a client may have kept
DRAFT_ID == "draft-2"
OldDraftId == "draft-1"
Everyone == "all"

\* the connections of a run, in the order in which they are opened
SocketOrder == <<"s1", "s2">>
Sockets == {SocketOrder[i] : i \in 1..Len(SocketOrder)}

\* generateTeamId: a fresh random id; the k-th team created gets the k-th id
TeamIdNames == <<"team-1", "team-2", "team-3", "team-4", "team-5",
                 "team-6", "team-7", "team-8">>
WatcherIdNames == <<"watcher-1", "watcher-2", "watcher-3">>

(***************************************************************************)
(* allPlayers: the pool loaded from players.json; a player's id is its     *)
(* index, the entry is its position.  The last player has a position the   *)
(* roster rules do not know.                                               *)
(***************************************************************************)
allPlayers ==
    <<"QB", "QB", "RB", "RB", "RB", "RB", "WR", "WR", "TE", "TE",
      "WR", "WR", "K", "K", "DEF">>

PlayerIds == 1..Len(allPlayers)
\* an id that is not in the pool
NoSuchPlayer == Len(allPlayers) + 1

EmptyRoster == [QB |-> <<>>, RB |-> <<>>, WR_TE |-> <<>>, K |-> <<>>]
RosterSlots == {"QB", "RB", "WR_TE", "K"}

VARIABLES
    phase,             \* draftState.phase
    teams,             \* draftState.teams
    watchers,          \* draftState.watchers
    draftOrder,        \* draftState.draftOrder
    currentPickIndex,  \* draftState.currentPickIndex
    picks,             \* draftState.picks
    draftedPlayerIds,  \* draftState.draftedPlayerIds
    paused,            \* draftState.paused
    chatMessages,      \* chatMessages
    sockets,           \* each connection: "new", "open" or "closed"
    saved,             \* number of result files written by saveDraftResults
    out,               \* the messages emitted by the last handler, in order
    undone,            \* number of accepted undo-pick requests so far
    storage,           \* each client's sessionStorage (part_000)
    localState,        \* each client's localState (part_000 3-17)
    inbox,             \* messages on their way to each client, in order
    requests           \* a client's join requests on their way to the server

draftVars == <<phase, draftOrder, currentPickIndex, picks, draftedPlayerIds, paused>>
clientVars == <<storage, localState, inbox, requests>>
serverVars == <<phase, teams, watchers, draftOrder, currentPickIndex, picks,
                draftedPlayerIds, paused, chatMessages, sockets, saved, out, undone>>
vars == <<phase, teams, watchers, draftOrder, currentPickIndex, picks,
          draftedPlayerIds, paused, chatMessages, sockets, saved, out, undone,
          storage, localState, inbox, requests>>


(***************************************************************************)
(* Messages a handler emits: socket.emit goes to the acting connection,    *)
(* io.emit to every connection.                                            *)
(***************************************************************************)
\* mutant of Error: the error goes to every connection
ErrorToEveryone(s, msg) == [ev |-> "error", to |-> Everyone, message |-> msg]

Error(s, msg) == [ev |-> "error", to |-> s, message |-> msg]
\* mutant of serializeDraftState: the snapshot goes out without the picks
serializeDraftStateNoPicks ==
    [draftId |-> DRAFT_ID,
     phase |-> phase,
     teams |-> teams,
     watchers |-> [w \in 1..Len(watchers) |->
                      [id |-> watchers[w].id, name |-> watchers[w].name]],
     draftOrder |-> draftOrder,
     currentPickIndex |-> currentPickIndex,
     picks |-> <<>>,
     draftedPlayerIds |-> draftedPlayerIds,
     paused |-> paused]

\* serializeDraftState: the watchers go out with id and name only; the Set of
\* drafted ids goes out as the array of its members
serializeDraftState ==
    [draftId |-> DRAFT_ID,
     phase |-> phase,
     teams |-> teams,
     watchers |-> [w \in 1..Len(watchers) |->
                      [id |-> watchers[w].id, name |-> watchers[w].name]],
     draftOrder |-> draftOrder,
     currentPickIndex |-> currentPickIndex,
     picks |-> picks,
     draftedPlayerIds |-> draftedPlayerIds,
     paused |-> paused]

\* the snapshot is serialized when the message is emitted
StateUpdated(to) ==
    [ev |-> "draft-state-updated", to |-> to, state |-> serializeDraftState]
PlayersUpdated(to) == [ev |-> "players-updated", to |-> to]

ErrEmptyTeamName == "Team name cannot be empty"
ErrAlreadyStarted == "Draft has already started. You can only rejoin with an existing team name."
ErrFull == "Draft is full (8 teams maximum)"
ErrEmptyName == "Name cannot be empty"
ErrNameIsTeam == "This name is already registered as a team. Use \"Join Draft\" instead."
ErrStarted == "Draft has already started"
ErrTooFew == "Need at least 2 teams to start the draft"
ErrNotDrafting == "Draft is not in progress"
ErrPaused == "Draft is paused"
ErrNotRegistered == "You are not registered as a team"
ErrNotYourTurn == "It is not your turn to pick"
ErrPlayerNotFound == "Player not found"
ErrAlreadyDrafted == "Player has already been drafted"
ErrSlotFull(position) == "You have already filled your " \o position \o " roster slots"
ErrMustJoinToChat == "You must join the draft to chat"
ErrUnauthorized == "Unauthorized"
ErrMustBePaused == "Draft must be paused to undo picks"
ErrPickNotFound == "Pick not found"
ErrInvalidPick == "Invalid pick data"
\* no validation failed
Ok == "ok"

(***************************************************************************)
(* Helpers of src/server.js.  Array.prototype.find returns the FIRST       *)
(* match; a lookup returns the index in the list, 0 for undefined.         *)
(***************************************************************************)
FirstIndex(matches) ==
    IF matches = {}
    THEN 0
    ELSE CHOOSE i \in matches : \A j \in matches : i <= j

getAvailablePlayers == {p \in PlayerIds : p \notin draftedPlayerIds}

findTeamBySocketId(s) ==
    FirstIndex({i \in 1..Len(teams) : teams[i].socketId = s})

findTeamById(teamId) ==
    FirstIndex({i \in 1..Len(teams) : teams[i].id = teamId})

\* mutant of findTeamByName: the names are compared as they are written
findTeamByNameExact(name) ==
    FirstIndex({i \in 1..Len(teams) : teams[i].name = name})

findTeamByName(name) ==
    FirstIndex({i \in 1..Len(teams) : toLowerCase(teams[i].name) = toLowerCase(name)})

findWatcherBySocketId(s) ==
    FirstIndex({i \in 1..Len(watchers) : watchers[i].socketId = s})

findWatcherByName(name) ==
    FirstIndex({i \in 1..Len(watchers) : toLowerCase(watchers[i].name) = toLowerCase(name)})

\* mutant of getCurrentPicker: the team of the first position of the order is
\* always on the clock
getCurrentPickerFirst ==
    IF phase # "drafting" \/ currentPickIndex >= Len(draftOrder)
    THEN 0
    ELSE findTeamById(draftOrder[1])

\* the team on the clock: its index in teams, 0 for null
getCurrentPicker ==
    IF phase # "drafting" \/ currentPickIndex >= Len(draftOrder)
    THEN 0
    ELSE findTeamById(draftOrder[currentPickIndex + 1])

\* mutant of canDraftPosition: the QB limit is compared with <=
canDraftPositionOffByOne(team, position) ==
    IF position = "QB" THEN Len(team.roster.QB) <= LimitQB
    ELSE IF position = "RB" THEN Len(team.roster.RB) < LimitRB
    ELSE IF position = "WR" \/ position = "TE" THEN Len(team.roster.WR_TE) < LimitWRTE
    ELSE IF position = "K" THEN Len(team.roster.K) < LimitK
    ELSE FALSE

canDraftPosition(team, position) ==
    IF position = "QB" THEN Len(team.roster.QB) < LimitQB
    ELSE IF position = "RB" THEN Len(team.roster.RB) < LimitRB
    ELSE IF position = "WR" \/ position = "TE" THEN Len(team.roster.WR_TE) < LimitWRTE
    ELSE IF position = "K" THEN Len(team.roster.K) < LimitK
    ELSE FALSE

getRosterSlot(position) ==
    IF position = "WR" \/ position = "TE" THEN "WR_TE" ELSE position

Reverse(seq) == [i \in 1..Len(seq) |-> seq[Len(seq) + 1 - i]]

\* mutant of snakeRounds: the odd rounds are not reversed
RECURSIVE snakeRoundsNoReverse(_, _)
snakeRoundsNoReverse(ids, round) ==
    IF round >= Rounds THEN <<>>
    ELSE ids \o snakeRoundsNoReverse(ids, round + 1)

RECURSIVE snakeRounds(_, _)
snakeRounds(ids, round) ==
    IF round >= Rounds THEN <<>>
    ELSE (IF round % 2 = 0 THEN ids ELSE Reverse(ids)) \o snakeRounds(ids, round + 1)

\* the shuffle ([...teams].sort(() => Math.random() - 0.5)) yields some
\* permutation perm of the list; the order is built from it
Shuffles(n) == Permutations(1..n)

\* mutant of generateSnakeDraftOrder: the order has one round only
generateSnakeDraftOrderOneRound(teamList, perm) ==
    LET shuffled == [i \in 1..Len(teamList) |-> teamList[perm[i]]]
    IN  snakeRounds([i \in 1..Len(shuffled) |-> shuffled[i].id], Rounds - 1)

generateSnakeDraftOrder(teamList, perm) ==
    LET shuffled == [i \in 1..Len(teamList) |-> teamList[perm[i]]]
    IN  snakeRounds([i \in 1..Len(shuffled) |-> shuffled[i].id], 0)

generateTeamId == TeamIdNames[Len(teams) + 1]
generateWatcherId == WatcherIdNames[Len(watchers) + 1]


(***************************************************************************)
(* The client (part_000): what a page keeps in sessionStorage and in       *)
(* localState.  null is an absent id; an absent name is the empty string,  *)
(* which the client's tests treat like null.  Of localState, the identity  *)
(* fields are kept; staleLogged is the console line of a detected stale    *)
(* session.                                                                *)
(***************************************************************************)
null == "null"
NoName == <<>>

EmptyStorage ==
    [playoffDraftId |-> null,
     playoffDraftTeamName |-> NoName, playoffDraftTeamId |-> null,
     playoffDraftWatcherName |-> NoName, playoffDraftWatcherId |-> null]

InitialLocalState ==
    [myTeamId |-> null, myTeamName |-> NoName, isWatcher |-> FALSE,
     myWatcherId |-> null, myWatcherName |-> NoName, staleLogged |-> FALSE]

\* no page is loaded: the specifications of the server alone
NoClients ==
    /\ storage = [s \in Sockets |-> EmptyStorage]
    /\ localState = [s \in Sockets |-> InitialLocalState]
    /\ inbox = [s \in Sockets |-> <<>>]
    /\ requests = [s \in Sockets |-> <<>>]

(***************************************************************************)
(* The initial state: draftState and chatMessages as constructed, no       *)
(* connection yet.                                                         *)
(***************************************************************************)
Init ==
    /\ phase = "setup"
    /\ teams = <<>>
    /\ watchers = <<>>
    /\ draftOrder = <<>>
    /\ currentPickIndex = 0
    /\ picks = <<>>
    /\ draftedPlayerIds = {}
    /\ paused = FALSE
    /\ chatMessages = <<>>
    /\ sockets = [s \in Sockets |-> "new"]
    /\ saved = 0
    /\ out = <<>>
    /\ undone = 0
    /\ NoClients

(***************************************************************************)
(* A handler runs for an event of an open connection, once the messages of *)
(* the previous handler have been handed to the transport.                 *)
(***************************************************************************)
Handles(s) == sockets[s] = "open" /\ out = <<>>

\* socket.io sends the emitted messages; they leave the server
Flush ==
    /\ out # <<>>
    /\ out' = <<>>
    /\ UNCHANGED <<draftVars, teams, watchers, chatMessages, sockets, saved, undone>>

(***************************************************************************)
(* io.on('connection'): a new connection gets the state and the available  *)
(* players.  Socket ids are fresh, so connections open in a fixed order.   *)
(***************************************************************************)
Connect(s) ==
    /\ out = <<>>
    /\ sockets[s] = "new"
    /\ \A i, j \in 1..Len(SocketOrder) :
          (SocketOrder[j] = s /\ i < j) => sockets[SocketOrder[i]] # "new"
    /\ sockets' = [sockets EXCEPT ![s] = "open"]
    /\ UNCHANGED <<draftVars, teams, watchers, chatMessages, saved, undone>>
    /\ out' = <<StateUpdated(s)', PlayersUpdated(s)>>

(***************************************************************************)
(* join-draft                                                              *)
(***************************************************************************)
\* mutant of JoinDraftError: the phase is checked before the lookup of the
\* name
JoinDraftErrorPhaseFirst(teamName) ==
    IF trim(teamName) = <<>> THEN ErrEmptyTeamName
    ELSE IF phase # "setup" THEN ErrAlreadyStarted
    ELSE IF findTeamByName(trim(teamName)) # 0 THEN Ok
    ELSE IF Len(teams) >= MaxTeams THEN ErrFull
    ELSE Ok

\* mutant of JoinDraftError: the phase is not checked
JoinDraftErrorNoPhase(teamName) ==
    IF trim(teamName) = <<>> THEN ErrEmptyTeamName
    ELSE IF findTeamByName(trim(teamName)) # 0 THEN Ok
    ELSE IF Len(teams) >= MaxTeams THEN ErrFull
    ELSE Ok

\* mutant of JoinDraftError: the number of teams is checked before the phase
JoinDraftErrorFullFirst(teamName) ==
    IF trim(teamName) = <<>> THEN ErrEmptyTeamName
    ELSE IF findTeamByName(trim(teamName)) # 0 THEN Ok
    ELSE IF Len(teams) >= MaxTeams THEN ErrFull
    ELSE IF phase # "setup" THEN ErrAlreadyStarted
    ELSE Ok

\* the validation of join-draft for a name that is not a registered team
JoinDraftError(teamName) ==
    IF trim(teamName) = <<>> THEN ErrEmptyTeamName
    ELSE IF findTeamByName(trim(teamName)) # 0 THEN Ok
    ELSE IF phase # "setup" THEN ErrAlreadyStarted
    ELSE IF Len(teams) >= MaxTeams THEN ErrFull
    ELSE Ok

\* reconnection: existingTeam.socketId = socket.id
RebindTeam(i, s) == [teams EXCEPT ![i].socketId = s]

\* previousTeam.socketId = null for the team findTeamBySocketId finds
ClearPreviousTeam(s) ==
    IF findTeamBySocketId(s) # 0
    THEN [teams EXCEPT ![findTeamBySocketId(s)].socketId = NoSocket]
    ELSE teams

NewTeam(name, s) ==
    [id |-> generateTeamId, name |-> name, socketId |-> s, roster |-> EmptyRoster]

Joined(s, team) ==
    [ev |-> "joined", to |-> s, teamId |-> team.id, teamName |-> team.name]

JoinDraft(s, teamName) ==
    /\ Handles(s)
    /\ UNCHANGED <<draftVars, watchers, chatMessages, sockets, saved, undone>>
    /\ LET trimmedName == trim(teamName)
           existingTeam == findTeamByName(trimmedName)
       IN  IF JoinDraftError(teamName) # Ok
           THEN /\ out' = <<Error(s, JoinDraftError(teamName))>>
                /\ teams' = teams
           ELSE IF existingTeam # 0
           THEN /\ teams' = RebindTeam(existingTeam, s)
                /\ out' = <<Joined(s, teams[existingTeam]), StateUpdated(Everyone)'>>
           ELSE /\ teams' = Append(ClearPreviousTeam(s), NewTeam(trimmedName, s))
                /\ out' = <<Joined(s, NewTeam(trimmedName, s)), StateUpdated(Everyone)'>>

(***************************************************************************)
(* join-as-watcher                                                         *)
(***************************************************************************)
\* mutant of JoinAsWatcherError: the name is not looked up among the teams
JoinAsWatcherErrorNoTeamCheck(watcherName) ==
    IF trim(watcherName) = <<>> THEN ErrEmptyName
    ELSE Ok

\* mutant of JoinAsWatcherError: only the name of a team that is connected
\* is refused
JoinAsWatcherErrorTeamBound(watcherName) ==
    IF trim(watcherName) = <<>> THEN ErrEmptyName
    ELSE IF /\ findTeamByName(trim(watcherName)) # 0
            /\ teams[findTeamByName(trim(watcherName))].socketId # NoSocket
         THEN ErrNameIsTeam
    ELSE Ok

JoinAsWatcherError(watcherName) ==
    IF trim(watcherName) = <<>> THEN ErrEmptyName
    ELSE IF findTeamByName(trim(watcherName)) # 0 THEN ErrNameIsTeam
    ELSE Ok

NewWatcher(name, s) == [id |-> generateWatcherId, name |-> name, socketId |-> s]

JoinedAsWatcher(s, w) ==
    [ev |-> "joined-as-watcher", to |-> s, watcherId |-> w.id, watcherName |-> w.name]

JoinAsWatcher(s, watcherName) ==
    /\ Handles(s)
    /\ UNCHANGED <<draftVars, teams, chatMessages, sockets, saved, undone>>
    /\ LET trimmedName == trim(watcherName)
           existingWatcher == findWatcherByName(trimmedName)
       IN  IF JoinAsWatcherError(watcherName) # Ok
           THEN /\ out' = <<Error(s, JoinAsWatcherError(watcherName))>>
                /\ watchers' = watchers
           ELSE IF existingWatcher # 0
           THEN /\ watchers' = [watchers EXCEPT ![existingWatcher].socketId = s]
                /\ out' = <<JoinedAsWatcher(s, watchers[existingWatcher]),
                            StateUpdated(Everyone)'>>
           ELSE /\ watchers' = Append(watchers, NewWatcher(trimmedName, s))
                /\ out' = <<JoinedAsWatcher(s, NewWatcher(trimmedName, s)),
                            StateUpdated(Everyone)'>>

(***************************************************************************)
(* start-draft                                                             *)
(***************************************************************************)
\* mutant of StartDraftError: the phase check tests for 'drafting' instead
\* of 'setup', so that a finished draft can be started again
StartDraftErrorWhileDrafting ==
    IF phase = "drafting" THEN ErrStarted
    ELSE IF Len(teams) < 2 THEN ErrTooFew
    ELSE Ok

\* mutant of StartDraftError: a single team is enough
StartDraftErrorOneTeam ==
    IF phase # "setup" THEN ErrStarted
    ELSE IF Len(teams) < 1 THEN ErrTooFew
    ELSE Ok

StartDraftError ==
    IF phase # "setup" THEN ErrStarted
    ELSE IF Len(teams) < 2 THEN ErrTooFew
    ELSE Ok

StartDraft(s, perm) ==
    /\ Handles(s)
    /\ UNCHANGED <<picks, draftedPlayerIds, paused, teams, watchers,
                   chatMessages, sockets, saved, undone>>
    /\ IF StartDraftError # Ok
       THEN /\ out' = <<Error(s, StartDraftError)>>
            /\ UNCHANGED <<phase, draftOrder, currentPickIndex>>
       ELSE /\ draftOrder' = generateSnakeDraftOrder(teams, perm)
            /\ phase' = "drafting"
            /\ currentPickIndex' = 0
            /\ out' = <<[ev |-> "draft-started", to |-> Everyone,
                         draftOrder |-> draftOrder'],
                        StateUpdated(Everyone)'>>


(***************************************************************************)
(* draft-player                                                            *)
(***************************************************************************)
\* mutant of DraftPlayerError: the turn is not checked
DraftPlayerErrorNoTurn(s, playerId) ==
    LET team == findTeamBySocketId(s)
    IN  IF phase # "drafting" THEN ErrNotDrafting
        ELSE IF paused THEN ErrPaused
        ELSE IF team = 0 THEN ErrNotRegistered
        ELSE IF playerId \notin PlayerIds THEN ErrPlayerNotFound
        ELSE IF playerId \in draftedPlayerIds THEN ErrAlreadyDrafted
        ELSE IF ~canDraftPosition(teams[team], allPlayers[playerId])
             THEN ErrSlotFull(allPlayers[playerId])
        ELSE Ok

\* mutant of DraftPlayerError: a drafted player is not refused
DraftPlayerErrorNoClaimCheck(s, playerId) ==
    LET team == findTeamBySocketId(s)
        currentPicker == getCurrentPicker
    IN  IF phase # "drafting" THEN ErrNotDrafting
        ELSE IF paused THEN ErrPaused
        ELSE IF team = 0 THEN ErrNotRegistered
        ELSE IF currentPicker = 0 \/ teams[currentPicker].id # teams[team].id
             THEN ErrNotYourTurn
        ELSE IF playerId \notin PlayerIds THEN ErrPlayerNotFound
        ELSE IF ~canDraftPosition(teams[team], allPlayers[playerId])
             THEN ErrSlotFull(allPlayers[playerId])
        ELSE Ok

\* mutant of DraftPlayerError: the drafted player is refused before the
\* turn is checked
DraftPlayerErrorClaimFirst(s, playerId) ==
    LET team == findTeamBySocketId(s)
        currentPicker == getCurrentPicker
    IN  IF phase # "drafting" THEN ErrNotDrafting
        ELSE IF paused THEN ErrPaused
        ELSE IF team = 0 THEN ErrNotRegistered
        ELSE IF playerId \in draftedPlayerIds THEN ErrAlreadyDrafted
        ELSE IF currentPicker = 0 \/ teams[currentPicker].id # teams[team].id
             THEN ErrNotYourTurn
        ELSE IF playerId \notin PlayerIds THEN ErrPlayerNotFound
        ELSE IF ~canDraftPosition(teams[team], allPlayers[playerId])
             THEN ErrSlotFull(allPlayers[playerId])
        ELSE Ok

\* mutant of DraftPlayerError: the team is looked up before the pause is
\* checked
DraftPlayerErrorTeamFirst(s, playerId) ==
    LET team == findTeamBySocketId(s)
        currentPicker == getCurrentPicker
    IN  IF phase # "drafting" THEN ErrNotDrafting
        ELSE IF team = 0 THEN ErrNotRegistered
        ELSE IF paused THEN ErrPaused
        ELSE IF currentPicker = 0 \/ teams[currentPicker].id # teams[team].id
             THEN ErrNotYourTurn
        ELSE IF playerId \notin PlayerIds THEN ErrPlayerNotFound
        ELSE IF playerId \in draftedPlayerIds THEN ErrAlreadyDrafted
        ELSE IF ~canDraftPosition(teams[team], allPlayers[playerId])
             THEN ErrSlotFull(allPlayers[playerId])
        ELSE Ok

\* mutant of DraftPlayerError: the pause is not checked
DraftPlayerErrorNoPause(s, playerId) ==
    LET team == findTeamBySocketId(s)
        currentPicker == getCurrentPicker
    IN  IF phase # "drafting" THEN ErrNotDrafting
        ELSE IF team = 0 THEN ErrNotRegistered
        ELSE IF currentPicker = 0 \/ teams[currentPicker].id # teams[team].id
             THEN ErrNotYourTurn
        ELSE IF playerId \notin PlayerIds THEN ErrPlayerNotFound
        ELSE IF playerId \in draftedPlayerIds THEN ErrAlreadyDrafted
        ELSE IF ~canDraftPosition(teams[team], allPlayers[playerId])
             THEN ErrSlotFull(allPlayers[playerId])
        ELSE Ok

\* the validation chain of draft-player, in the order of the code
DraftPlayerError(s, playerId) ==
    LET team == findTeamBySocketId(s)
        currentPicker == getCurrentPicker
    IN  IF phase # "drafting" THEN ErrNotDrafting
        ELSE IF paused THEN ErrPaused
        ELSE IF team = 0 THEN ErrNotRegistered
        ELSE IF currentPicker = 0 \/ teams[currentPicker].id # teams[team].id
             THEN ErrNotYourTurn
        ELSE IF playerId \notin PlayerIds THEN ErrPlayerNotFound
        ELSE IF playerId \in draftedPlayerIds THEN ErrAlreadyDrafted
        ELSE IF ~canDraftPosition(teams[team], allPlayers[playerId])
             THEN ErrSlotFull(allPlayers[playerId])
        ELSE Ok

\* team.roster[rosterSlot].push(player)
\* mutant of AddToRoster: the player is not put on the roster
AddToRosterNone(team, playerId) == teams

AddToRoster(team, playerId) ==
    [teams EXCEPT ![team].roster[getRosterSlot(allPlayers[playerId])] = Append(@, playerId)]

\* mutant of NewPick: the pick number is the index before the pick
NewPickZeroBased(team, playerId) ==
    [teamId |-> teams[team].id, playerId |-> playerId,
     pickNumber |-> currentPickIndex]

\* the pick record (its timestamp, Date.now(), is not modelled)
NewPick(team, playerId) ==
    [teamId |-> teams[team].id, playerId |-> playerId,
     pickNumber |-> currentPickIndex + 1]

\* mutant of totalPicks: one round short
totalPicksShort == Len(teams) * (Rounds - 1)

\* mutant of totalPicks: the completion test is > instead of >=
totalPicksLate == Len(teams) * Rounds + 1

\* draftState.teams.length * 7
totalPicks == Len(teams) * Rounds

PlayerDrafted(team, playerId) ==
    [ev |-> "player-drafted", to |-> Everyone, playerId |-> playerId,
     teamId |-> teams[team].id, teamName |-> teams[team].name,
     playerPosition |-> allPlayers[playerId], pickNumber |-> currentPickIndex + 1]

DraftPlayer(s, playerId) ==
    /\ Handles(s)
    /\ UNCHANGED <<draftOrder, paused, watchers, chatMessages, sockets, undone>>
    /\ IF DraftPlayerError(s, playerId) # Ok
       THEN /\ out' = <<Error(s, DraftPlayerError(s, playerId))>>
            /\ UNCHANGED <<phase, teams, currentPickIndex, picks,
                           draftedPlayerIds, saved>>
       ELSE LET team == findTeamBySocketId(s) IN
            /\ teams' = AddToRoster(team, playerId)
            /\ draftedPlayerIds' = draftedPlayerIds \cup {playerId}
            /\ picks' = Append(picks, NewPick(team, playerId))
            /\ currentPickIndex' = currentPickIndex + 1
            /\ IF currentPickIndex + 1 >= totalPicks
               THEN phase' = "complete" /\ saved' = saved + 1
               ELSE UNCHANGED <<phase, saved>>
            /\ out' = <<PlayerDrafted(team, playerId), StateUpdated(Everyone)',
                        PlayersUpdated(Everyone)>>

(***************************************************************************)
(* chat-message and get-chat-history                                       *)
(***************************************************************************)
SpectatorSuffix == <<" ", "(", "S", "p", "e", "c", "t", "a", "t", "o", "r", ")">>

NewChatMessage(s, message) ==
    LET team == findTeamBySocketId(s)
        watcher == findWatcherBySocketId(s)
    IN  [teamId |-> IF team # 0 THEN teams[team].id ELSE watchers[watcher].id,
         teamName |-> (IF team # 0 THEN teams[team].name ELSE watchers[watcher].name)
                      \o (IF watcher # 0 THEN SpectatorSuffix ELSE <<>>),
         message |-> substring0(trim(message), ChatMaxLen)]

\* mutant of PushChat: once the list is full the new message is dropped
PushChatDropNewest(msg) ==
    IF Len(chatMessages) + 1 > ChatCapacity
    THEN chatMessages
    ELSE Append(chatMessages, msg)

\* push, then shift once the list is longer than the capacity
PushChat(msg) ==
    IF Len(chatMessages) + 1 > ChatCapacity
    THEN Tail(Append(chatMessages, msg))
    ELSE Append(chatMessages, msg)

\* mutant of ChatMessageError: only the connection of a team may post
ChatMessageErrorTeamsOnly(s) ==
    IF findTeamBySocketId(s) = 0 THEN ErrMustJoinToChat ELSE Ok

\* if (!team && !watcher)
ChatMessageError(s) ==
    IF findTeamBySocketId(s) = 0 /\ findWatcherBySocketId(s) = 0
    THEN ErrMustJoinToChat
    ELSE Ok

ChatMessage(s, message) ==
    /\ Handles(s)
    /\ IF ChatMessageError(s) # Ok
       THEN /\ out' = <<Error(s, ChatMessageError(s))>>
            /\ chatMessages' = chatMessages
       ELSE IF trim(message) = <<>>
       THEN /\ out' = <<>>
            /\ chatMessages' = chatMessages
       ELSE /\ chatMessages' = PushChat(NewChatMessage(s, message))
            /\ out' = <<[ev |-> "chat-message", to |-> Everyone,
                         chatMessage |-> NewChatMessage(s, message)]>>
    /\ UNCHANGED <<draftVars, teams, watchers, sockets, saved, undone>>

GetChatHistory(s) ==
    /\ Handles(s)
    /\ out' = <<[ev |-> "chat-history", to |-> s, messages |-> chatMessages]>>
    /\ UNCHANGED <<draftVars, teams, watchers, chatMessages, sockets, saved, undone>>

(***************************************************************************)
(* pause-draft, resume-draft                                               *)
(***************************************************************************)
\* mutant of IsPrivileged: the name is compared without regard to case
IsPrivilegedAnyCase(s) ==
    /\ findTeamBySocketId(s) # 0
    /\ toLowerCase(teams[findTeamBySocketId(s)].name) = toLowerCase(PrivilegedName)

\* !team || team.name !== 'BD Crushers'
IsPrivileged(s) ==
    /\ findTeamBySocketId(s) # 0
    /\ teams[findTeamBySocketId(s)].name = PrivilegedName

PauseError(s) ==
    IF ~IsPrivileged(s) THEN ErrUnauthorized
    ELSE IF phase # "drafting" THEN ErrNotDrafting
    ELSE Ok

PauseDraft(s) ==
    /\ Handles(s)
    /\ UNCHANGED <<phase, draftOrder, currentPickIndex, picks, draftedPlayerIds,
                   teams, watchers, chatMessages, sockets, saved, undone>>
    /\ IF PauseError(s) # Ok
       THEN out' = <<Error(s, PauseError(s))>> /\ paused' = paused
       ELSE paused' = TRUE /\ out' = <<StateUpdated(Everyone)'>>

ResumeDraft(s) ==
    /\ Handles(s)
    /\ UNCHANGED <<phase, draftOrder, currentPickIndex, picks, draftedPlayerIds,
                   teams, watchers, chatMessages, sockets, saved, undone>>
    /\ IF PauseError(s) # Ok
       THEN out' = <<Error(s, PauseError(s))>> /\ paused' = paused
       ELSE paused' = FALSE /\ out' = <<StateUpdated(Everyone)'>>

(***************************************************************************)
(* undo-pick                                                               *)
(***************************************************************************)
\* draftState.picks.findIndex(p => p.pickNumber === pickNumber), 0 for -1
findPickIndex(pickNumber) ==
    FirstIndex({i \in 1..Len(picks) : picks[i].pickNumber = pickNumber})

\* mutant of UndoPickError: the pause is checked before the phase
UndoPickErrorPausedFirst(s, pickNumber) ==
    IF ~IsPrivileged(s) THEN ErrUnauthorized
    ELSE IF ~paused THEN ErrMustBePaused
    ELSE IF phase # "drafting" THEN ErrNotDrafting
    ELSE IF findPickIndex(pickNumber) = 0 THEN ErrPickNotFound
    ELSE IF findTeamById(picks[findPickIndex(pickNumber)].teamId) = 0
            \/ picks[findPickIndex(pickNumber)].playerId \notin PlayerIds
         THEN ErrInvalidPick
    ELSE Ok

UndoPickError(s, pickNumber) ==
    IF ~IsPrivileged(s) THEN ErrUnauthorized
    ELSE IF phase # "drafting" THEN ErrNotDrafting
    ELSE IF ~paused THEN ErrMustBePaused
    ELSE IF findPickIndex(pickNumber) = 0 THEN ErrPickNotFound
    ELSE IF findTeamById(picks[findPickIndex(pickNumber)].teamId) = 0
            \/ picks[findPickIndex(pickNumber)].playerId \notin PlayerIds
         THEN ErrInvalidPick
    ELSE Ok

\* Array.prototype.splice(index, 1)
RemoveAt(seq, index) ==
    [i \in 1..(Len(seq) - 1) |-> IF i < index THEN seq[i] ELSE seq[i + 1]]

\* mutant of RemoveFromRoster: the roster keeps the player
RemoveFromRosterNone(pick) == teams

\* mutant of RemoveFromRoster: the first player of the slot is removed
RemoveFromRosterFirst(pick) ==
    LET pickTeam == findTeamById(pick.teamId)
        rosterSlot == getRosterSlot(allPlayers[pick.playerId])
    IN  [teams EXCEPT ![pickTeam].roster[rosterSlot] = RemoveAt(@, 1)]

\* remove the player from the slot of the team that made the pick, if there
RemoveFromRoster(pick) ==
    LET pickTeam == findTeamById(pick.teamId)
        rosterSlot == getRosterSlot(allPlayers[pick.playerId])
        slot == teams[pickTeam].roster[rosterSlot]
        playerIndex == FirstIndex({i \in 1..Len(slot) : slot[i] = pick.playerId})
    IN  IF playerIndex # 0
        THEN [teams EXCEPT ![pickTeam].roster[rosterSlot] = RemoveAt(@, playerIndex)]
        ELSE teams

\* mutant of UndoDrafted: the id stays in the claimed set
UndoDraftedKept(pick) == draftedPlayerIds

\* draftState.draftedPlayerIds.delete(pick.playerId)
UndoDrafted(pick) == draftedPlayerIds \ {pick.playerId}

\* mutant of UndoPickIndex: the index is not moved back
UndoPickIndexKept == currentPickIndex

\* if (currentPickIndex > 0) currentPickIndex--
UndoPickIndex == IF currentPickIndex > 0 THEN currentPickIndex - 1 ELSE currentPickIndex

UndoPick(s, pickNumber) ==
    /\ Handles(s)
    /\ UNCHANGED <<phase, draftOrder, paused, watchers, chatMessages, sockets, saved>>
    /\ IF UndoPickError(s, pickNumber) # Ok
       THEN /\ out' = <<Error(s, UndoPickError(s, pickNumber))>>
            /\ UNCHANGED <<teams, draftedPlayerIds, picks, currentPickIndex, undone>>
       ELSE LET pickIndex == findPickIndex(pickNumber) IN
            /\ teams' = RemoveFromRoster(picks[pickIndex])
            /\ draftedPlayerIds' = UndoDrafted(picks[pickIndex])
            /\ picks' = RemoveAt(picks, pickIndex)
            /\ currentPickIndex' = UndoPickIndex
            /\ undone' = undone + 1
            /\ out' = <<StateUpdated(Everyone)', PlayersUpdated(Everyone)>>

(***************************************************************************)
(* disconnect: the connection is gone for good (the client reconnects with *)
(* a new socket id); the team or watcher it was bound to stays.            *)
(***************************************************************************)
UnbindTeam(s) ==
    IF findTeamBySocketId(s) # 0
    THEN [teams EXCEPT ![findTeamBySocketId(s)].socketId = NoSocket]
    ELSE teams

UnbindWatcher(s) ==
    IF findWatcherBySocketId(s) # 0
    THEN [watchers EXCEPT ![findWatcherBySocketId(s)].socketId = NoSocket]
    ELSE watchers

Disconnect(s) ==
    /\ Handles(s)
    /\ sockets' = [sockets EXCEPT ![s] = "closed"]
    /\ teams' = UnbindTeam(s)
    /\ watchers' = UnbindWatcher(s)
    /\ out' = <<>>
    /\ UNCHANGED <<draftVars, chatMessages, saved, undone>>

(***************************************************************************)
(* Inputs of the handlers.                                                 *)
(***************************************************************************)
OtherName == <<" ", "A", "b", " ">>
TeamNameInputs ==
    {PrivilegedName, toLowerCase(PrivilegedName), OtherName, <<" ">>}
\* the team names of the specification with spectators and chat
TeamNameInputsAll == {PrivilegedName, OtherName, <<" ">>}
WatcherNameInputs == {<<"a", "B">>, <<>>}
ChatInputs == {<<" ", "h", "i">>, <<" ">>}

\* the undrafted player with the lowest id among the candidates, if any
FirstOf(candidates) ==
    IF candidates = {} THEN {}
    ELSE {CHOOSE q \in candidates : \A r \in candidates : q <= r}

\* ids a client asks for: the first undrafted player of the pool, the first
\* one the team on the clock may still draft, the player drafted last, the
\* players of unknown position and an id that is not in the pool
PickInputs ==
    FirstOf(getAvailablePlayers)
    \cup FirstOf({p \in getAvailablePlayers :
                    /\ getCurrentPicker # 0
                    /\ canDraftPosition(teams[getCurrentPicker], allPlayers[p])})
    \cup (IF picks # <<>> THEN {picks[Len(picks)].playerId} ELSE {})
    \cup {p \in PlayerIds : getRosterSlot(allPlayers[p]) \notin RosterSlots}
    \cup {NoSuchPlayer}

\* pick numbers the privileged client asks to undo: the first pick, the
\* latest and one past the latest
UndoInputs == {1, Len(picks), Len(picks) + 1}

(***************************************************************************)
(* Spec: the draft engine (connections, teams, start, picks, pause,        *)
(* resume, undo, disconnect).  SpecAll: every handler, spectators and chat *)
(* included, where only the undo requests that are rejected are issued.    *)
(***************************************************************************)
Next ==
    \/ \E s \in Sockets : Connect(s) /\ UNCHANGED clientVars
    \/ \E s \in Sockets, name \in TeamNameInputs : JoinDraft(s, name)
          /\ UNCHANGED clientVars
    \/ \E s \in Sockets, perm \in Shuffles(Len(teams)) : StartDraft(s, perm)
          /\ UNCHANGED clientVars
    \/ \E s \in Sockets, playerId \in PickInputs : DraftPlayer(s, playerId)
          /\ UNCHANGED clientVars
    \/ \E s \in Sockets : PauseDraft(s) /\ UNCHANGED clientVars
    \/ \E s \in Sockets : ResumeDraft(s) /\ UNCHANGED clientVars
    \/ \E s \in Sockets, pickNumber \in UndoInputs :
          (UndoPickError(s, pickNumber) = Ok => undone < MaxUndo)
          /\ UndoPick(s, pickNumber)
          /\ UNCHANGED clientVars
    \/ \E s \in Sockets : Disconnect(s) /\ UNCHANGED clientVars
    \/ Flush /\ UNCHANGED clientVars

Spec == Init /\ [][Next]_vars

NextAll ==
    \/ \E s \in Sockets : Connect(s) /\ UNCHANGED clientVars
    \/ \E s \in Sockets, name \in TeamNameInputsAll : JoinDraft(s, name)
          /\ UNCHANGED clientVars
    \/ \E s \in Sockets, name \in WatcherNameInputs : JoinAsWatcher(s, name)
          /\ UNCHANGED clientVars
    \/ \E s \in Sockets, perm \in Shuffles(Len(teams)) : StartDraft(s, perm)
          /\ UNCHANGED clientVars
    \/ \E s \in Sockets, playerId \in PickInputs : DraftPlayer(s, playerId)
          /\ UNCHANGED clientVars
    \/ \E s \in Sockets, message \in ChatInputs :
          Len(chatMessages) < MaxChat /\ ChatMessage(s, message)
          /\ UNCHANGED clientVars
    \/ \E s \in Sockets : GetChatHistory(s) /\ UNCHANGED clientVars
    \/ \E s \in Sockets : PauseDraft(s) /\ UNCHANGED clientVars
    \/ \E s \in Sockets : ResumeDraft(s) /\ UNCHANGED clientVars
    \/ \E s \in Sockets, pickNumber \in UndoInputs :
          UndoPickError(s, pickNumber) # Ok /\ UndoPick(s, pickNumber)
          /\ UNCHANGED clientVars
    \/ \E s \in Sockets : Disconnect(s) /\ UNCHANGED clientVars
    \/ Flush /\ UNCHANGED clientVars

SpecAll == Init /\ [][NextAll]_vars


(***************************************************************************)
(* SpecUndo: the draft engine where the undo of every pick number is       *)
(* requested.                                                              *)
(***************************************************************************)
UndoInputsAny == 1..(Len(picks) + 1)

NextUndo ==
    \/ \E s \in Sockets : Connect(s) /\ UNCHANGED clientVars
    \/ \E s \in Sockets, name \in TeamNameInputs : JoinDraft(s, name)
          /\ UNCHANGED clientVars
    \/ \E s \in Sockets, perm \in Shuffles(Len(teams)) : StartDraft(s, perm)
          /\ UNCHANGED clientVars
    \/ \E s \in Sockets, playerId \in PickInputs : DraftPlayer(s, playerId)
          /\ UNCHANGED clientVars
    \/ \E s \in Sockets : PauseDraft(s) /\ UNCHANGED clientVars
    \/ \E s \in Sockets : ResumeDraft(s) /\ UNCHANGED clientVars
    \/ \E s \in Sockets, pickNumber \in UndoInputsAny :
          (UndoPickError(s, pickNumber) = Ok => undone < MaxUndo)
          /\ UndoPick(s, pickNumber)
          /\ UNCHANGED clientVars
    \/ \E s \in Sockets : Disconnect(s) /\ UNCHANGED clientVars
    \/ Flush /\ UNCHANGED clientVars

SpecUndo == Init /\ [][NextUndo]_vars

(***************************************************************************)
(* SpecRoles: the draft engine with spectators and every team name of      *)
(* TeamNameInputs, without chat; the undo requests of the team named       *)
(* 'BD Crushers' are issued where they are rejected (Spec has the others). *)
(***************************************************************************)
\* connection s is the connection of a team named exactly 'BD Crushers'
HoldsPrivilegedTeam(s) ==
    \E i \in 1..Len(teams) : teams[i].socketId = s /\ teams[i].name = PrivilegedName

NextRoles ==
    \/ \E s \in Sockets : Connect(s) /\ UNCHANGED clientVars
    \/ \E s \in Sockets, name \in TeamNameInputs : JoinDraft(s, name)
          /\ UNCHANGED clientVars
    \/ \E s \in Sockets, name \in WatcherNameInputs : JoinAsWatcher(s, name)
          /\ UNCHANGED clientVars
    \/ \E s \in Sockets, perm \in Shuffles(Len(teams)) : StartDraft(s, perm)
          /\ UNCHANGED clientVars
    \/ \E s \in Sockets, playerId \in PickInputs : DraftPlayer(s, playerId)
          /\ UNCHANGED clientVars
    \/ \E s \in Sockets : PauseDraft(s) /\ UNCHANGED clientVars
    \/ \E s \in Sockets : ResumeDraft(s) /\ UNCHANGED clientVars
    \/ \E s \in Sockets, pickNumber \in UndoInputs :
          (UndoPickError(s, pickNumber) = Ok => ~HoldsPrivilegedTeam(s))
          /\ UndoPick(s, pickNumber)
          /\ UNCHANGED clientVars
    \/ \E s \in Sockets : Disconnect(s) /\ UNCHANGED clientVars
    \/ Flush /\ UNCHANGED clientVars

SpecRoles == Init /\ [][NextRoles]_vars

(***************************************************************************)
(* Sessions with up to eight teams.  InitTeams: the first n of nine names  *)
(* have joined during setup and their connections are gone again.          *)
(* SpecOrder: start-draft with every outcome of the shuffle.               *)
(***************************************************************************)
ManyNames ==
    <<<<"t", "1">>, <<"t", "2">>, <<"t", "3">>, <<"t", "4">>, <<"t", "5">>,
      <<"t", "6">>, <<"t", "7">>, <<"t", "8">>, <<"t", "9">>>>

RegisteredTeams(n) ==
    [k \in 1..n |-> [id |-> TeamIdNames[k], name |-> ManyNames[k],
                     socketId |-> NoSocket, roster |-> EmptyRoster]]

InitTeams ==
    /\ phase = "setup"
    /\ \E n \in 0..MaxTeams : teams = RegisteredTeams(n)
    /\ watchers = <<>>
    /\ draftOrder = <<>>
    /\ currentPickIndex = 0
    /\ picks = <<>>
    /\ draftedPlayerIds = {}
    /\ paused = FALSE
    /\ chatMessages = <<>>
    /\ sockets = [s \in Sockets |-> "new"]
    /\ saved = 0
    /\ out = <<>>
    /\ undone = 0
    /\ NoClients

\* the outcomes of the shuffle of a start-draft request: the shuffle runs
\* only in a request that passes the validation
ShuffleInputs ==
    IF StartDraftError = Ok
    THEN Shuffles(Len(teams))
    ELSE {[i \in 1..Len(teams) |-> i]}

NextOrder ==
    \/ \E s \in Sockets : Connect(s) /\ UNCHANGED clientVars
    \/ \E s \in Sockets, perm \in ShuffleInputs : StartDraft(s, perm)
          /\ UNCHANGED clientVars
    \/ Flush /\ UNCHANGED clientVars

SpecOrder == InitTeams /\ [][NextOrder]_vars


(***************************************************************************)
(* SpecFull: joining a session that has up to eight teams, before and      *)
(* after the start of the draft.                                           *)
(***************************************************************************)
\* the name of the first team, and the eighth and ninth name
FullNameInputs == {ManyNames[1], ManyNames[8], ManyNames[9]}

\* two outcomes of the shuffle: the list as it is, and reversed
FewShuffleInputs ==
    IF StartDraftError = Ok
    THEN {[i \in 1..Len(teams) |-> i], [i \in 1..Len(teams) |-> Len(teams) + 1 - i]}
    ELSE {[i \in 1..Len(teams) |-> i]}

NextFull ==
    \/ \E s \in Sockets : Connect(s) /\ UNCHANGED clientVars
    \/ \E s \in Sockets, name \in FullNameInputs : JoinDraft(s, name)
          /\ UNCHANGED clientVars
    \/ \E s \in Sockets, perm \in FewShuffleInputs : StartDraft(s, perm)
          /\ UNCHANGED clientVars
    \/ \E s \in Sockets : Disconnect(s) /\ UNCHANGED clientVars
    \/ Flush /\ UNCHANGED clientVars

SpecFull == InitTeams /\ [][NextFull]_vars


(***************************************************************************)
(* SpecChat: the chat of a session whose first team has posted 0, 99 or    *)
(* 100 messages and has disconnected; the team is joined again, a          *)
(* spectator joins, and short, long and blank texts are posted.            *)
(***************************************************************************)
\* the text of the k-th message posted earlier: 'xx' or 'x' in turn
FillerText(k) == [i \in 1..((k % 2) + 1) |-> "x"]

PostedChat(n) ==
    [k \in 1..n |-> [teamId |-> TeamIdNames[1], teamName |-> ManyNames[1],
                     message |-> FillerText(k)]]

InitChat ==
    /\ phase = "setup"
    /\ teams = RegisteredTeams(1)
    /\ watchers = <<>>
    /\ draftOrder = <<>>
    /\ currentPickIndex = 0
    /\ picks = <<>>
    /\ draftedPlayerIds = {}
    /\ paused = FALSE
    /\ \E n \in {0, ChatCapacity - 1, ChatCapacity} : chatMessages = PostedChat(n)
    /\ sockets = [s \in Sockets |-> "new"]
    /\ saved = 0
    /\ out = <<>>
    /\ undone = 0
    /\ NoClients

\* a text of 201 characters after a leading blank
LongText == <<" ">> \o [i \in 1..(ChatMaxLen + 1) |-> "y"]

ChatTextInputs == ChatInputs \cup {LongText}

\* the number of retained messages that were posted in this run
NewPosts ==
    Cardinality({k \in 1..Len(chatMessages) : chatMessages[k].message[1] # "x"})

NextChat ==
    \/ \E s \in Sockets : Connect(s) /\ UNCHANGED clientVars
    \/ \E s \in Sockets : JoinDraft(s, ManyNames[1]) /\ UNCHANGED clientVars
    \/ \E s \in Sockets, name \in WatcherNameInputs : JoinAsWatcher(s, name)
          /\ UNCHANGED clientVars
    \/ \E s \in Sockets, message \in ChatTextInputs :
          ((ChatMessageError(s) = Ok /\ trim(message) # <<>>) => NewPosts < MaxPosts)
          /\ ChatMessage(s, message)
          /\ UNCHANGED clientVars
    \/ \E s \in Sockets : GetChatHistory(s) /\ UNCHANGED clientVars
    \/ \E s \in Sockets : Disconnect(s) /\ UNCHANGED clientVars
    \/ Flush /\ UNCHANGED clientVars

SpecChat == InitChat /\ [][NextChat]_vars


(***************************************************************************)
(* The client (part_000 70-148).  socket.io hands the messages of a        *)
(* handler to the connections they are addressed to, in the order in which *)
(* they were emitted; a page handles the messages it receives one by one.  *)
(***************************************************************************)
\* the messages among msgs that go to connection s
RECURSIVE SentTo(_, _)
SentTo(msgs, s) ==
    IF msgs = <<>> THEN <<>>
    ELSE (IF Head(msgs).to \in {s, Everyone} THEN <<Head(msgs)>> ELSE <<>>)
            \o SentTo(Tail(msgs), s)

Deliver ==
    /\ Flush
    /\ inbox' = [s \in Sockets |->
                    IF sockets[s] = "open" THEN inbox[s] \o SentTo(out, s) ELSE inbox[s]]
    /\ UNCHANGED <<storage, localState, requests>>

\* the next message for the page of connection s is an event ev
Receives(s, ev) == inbox[s] # <<>> /\ Head(inbox[s]).ev = ev

\* mutant of OnJoined: the page does not keep the id of its team
OnJoinedNoTeamId(s) ==
    /\ Receives(s, "joined")
    /\ LET data == Head(inbox[s]) IN
       /\ localState' = [localState EXCEPT ![s].myTeamName = data.teamName,
                                           ![s].isWatcher = FALSE]
       /\ storage' = [storage EXCEPT ![s].playoffDraftTeamName = data.teamName,
                                     ![s].playoffDraftTeamId = data.teamId,
                                     ![s].playoffDraftWatcherName = NoName,
                                     ![s].playoffDraftWatcherId = null]
    /\ inbox' = [inbox EXCEPT ![s] = Tail(@)]
    /\ UNCHANGED <<serverVars, requests>>

\* socket.on('joined')
OnJoined(s) ==
    /\ Receives(s, "joined")
    /\ LET data == Head(inbox[s]) IN
       /\ localState' = [localState EXCEPT ![s].myTeamId = data.teamId,
                                           ![s].myTeamName = data.teamName,
                                           ![s].isWatcher = FALSE]
       /\ storage' = [storage EXCEPT ![s].playoffDraftTeamName = data.teamName,
                                     ![s].playoffDraftTeamId = data.teamId,
                                     ![s].playoffDraftWatcherName = NoName,
                                     ![s].playoffDraftWatcherId = null]
    /\ inbox' = [inbox EXCEPT ![s] = Tail(@)]
    /\ UNCHANGED <<serverVars, requests>>

\* socket.on('joined-as-watcher')
OnJoinedAsWatcher(s) ==
    /\ Receives(s, "joined-as-watcher")
    /\ LET data == Head(inbox[s]) IN
       /\ localState' = [localState EXCEPT ![s].myWatcherId = data.watcherId,
                                           ![s].myWatcherName = data.watcherName,
                                           ![s].isWatcher = TRUE,
                                           ![s].myTeamId = null,
                                           ![s].myTeamName = NoName]
       /\ storage' = [storage EXCEPT ![s].playoffDraftWatcherName = data.watcherName,
                                     ![s].playoffDraftWatcherId = data.watcherId,
                                     ![s].playoffDraftTeamName = NoName,
                                     ![s].playoffDraftTeamId = null]
    /\ inbox' = [inbox EXCEPT ![s] = Tail(@)]
    /\ UNCHANGED <<serverVars, requests>>

\* mutant of isStaleSession: only a different draft id makes a session stale
isStaleSessionOtherIdOnly(s, state) ==
    LET savedDraftId == storage[s].playoffDraftId
    IN  savedDraftId # null /\ savedDraftId # state.draftId

\* const isStaleSession = ... (a saved value is tested for truth)
isStaleSession(s, state) ==
    LET savedDraftId == storage[s].playoffDraftId
        savedTeamName == storage[s].playoffDraftTeamName
        savedWatcherName == storage[s].playoffDraftWatcherName
    IN  \/ (savedDraftId # null /\ savedDraftId # state.draftId)
        \/ ((savedTeamName # NoName \/ savedWatcherName # NoName) /\ savedDraftId = null)

JoinDraftRequest(teamName) == [ev |-> "join-draft", teamName |-> teamName]
JoinAsWatcherRequest(watcherName) == [ev |-> "join-as-watcher", watcherName |-> watcherName]

\* the request the page sends for a snapshot of a session that is not stale
Reconnects(s) ==
    LET teamName == storage[s].playoffDraftTeamName
        watcherName == storage[s].playoffDraftWatcherName
    IN  IF teamName # NoName /\ localState[s].myTeamId = null
        THEN <<JoinDraftRequest(teamName)>>
        ELSE IF watcherName # NoName /\ localState[s].myWatcherId = null
        THEN <<JoinAsWatcherRequest(watcherName)>>
        ELSE <<>>

\* socket.on('draft-state-updated')
OnDraftStateUpdated(s) ==
    /\ Receives(s, "draft-state-updated")
    /\ LET state == Head(inbox[s]).state IN
       IF isStaleSession(s, state)
       THEN /\ storage' = [storage EXCEPT
                              ![s] = [EmptyStorage EXCEPT !.playoffDraftId = state.draftId]]
            /\ localState' = [localState EXCEPT
                                 ![s] = [InitialLocalState EXCEPT !.staleLogged = TRUE]]
            /\ requests' = requests
       ELSE /\ storage' = [storage EXCEPT ![s].playoffDraftId = state.draftId]
            /\ localState' = localState
            /\ requests' = [requests EXCEPT ![s] = @ \o Reconnects(s)]
    /\ inbox' = [inbox EXCEPT ![s] = Tail(@)]
    /\ UNCHANGED serverVars

\* socket.on('players-updated'): the list is kept for the view
OnPlayersUpdated(s) ==
    /\ Receives(s, "players-updated")
    /\ inbox' = [inbox EXCEPT ![s] = Tail(@)]
    /\ UNCHANGED <<serverVars, storage, localState, requests>>

\* the server handles the next request of connection s
ReceiveJoinDraft(s) ==
    /\ requests[s] # <<>>
    /\ Head(requests[s]).ev = "join-draft"
    /\ JoinDraft(s, Head(requests[s]).teamName)
    /\ requests' = [requests EXCEPT ![s] = Tail(@)]
    /\ UNCHANGED <<storage, localState, inbox>>

ReceiveJoinAsWatcher(s) ==
    /\ requests[s] # <<>>
    /\ Head(requests[s]).ev = "join-as-watcher"
    /\ JoinAsWatcher(s, Head(requests[s]).watcherName)
    /\ requests' = [requests EXCEPT ![s] = Tail(@)]
    /\ UNCHANGED <<storage, localState, inbox>>

(***************************************************************************)
(* SpecClient: two pages are loaded in a session in which two teams and a  *)
(* spectator have joined and left.  Each page finds in its sessionStorage  *)
(* no draft id, the id of an earlier server process or the id of this one, *)
(* and no name, the name of a team or the name of the spectator.  No user  *)
(* acts: the pages and the server answer each other's messages.  Every     *)
(* message sent is delivered and handled.                                  *)
(***************************************************************************)
SpectatorName == <<"a", "B">>

RegisteredWatchers ==
    <<[id |-> WatcherIdNames[1], name |-> SpectatorName, socketId |-> NoSocket]>>

StorageInputs ==
    {[EmptyStorage EXCEPT !.playoffDraftId = id] : id \in {null, OldDraftId, DRAFT_ID}}
    \cup {[EmptyStorage EXCEPT !.playoffDraftId = id,
                               !.playoffDraftTeamName = ManyNames[k],
                               !.playoffDraftTeamId = TeamIdNames[k]] :
             id \in {null, OldDraftId, DRAFT_ID}, k \in 1..2}
    \cup {[EmptyStorage EXCEPT !.playoffDraftId = id,
                               !.playoffDraftWatcherName = SpectatorName,
                               !.playoffDraftWatcherId = WatcherIdNames[1]] :
             id \in {null, OldDraftId, DRAFT_ID}}

InitClient ==
    /\ phase = "setup"
    /\ teams = RegisteredTeams(2)
    /\ watchers = RegisteredWatchers
    /\ draftOrder = <<>>
    /\ currentPickIndex = 0
    /\ picks = <<>>
    /\ draftedPlayerIds = {}
    /\ paused = FALSE
    /\ chatMessages = <<>>
    /\ sockets = [s \in Sockets |-> "new"]
    /\ saved = 0
    /\ out = <<>>
    /\ undone = 0
    /\ storage \in [Sockets -> StorageInputs]
    /\ localState = [s \in Sockets |-> InitialLocalState]
    /\ inbox = [s \in Sockets |-> <<>>]
    /\ requests = [s \in Sockets |-> <<>>]

NextClient ==
    \/ \E s \in Sockets : Connect(s) /\ UNCHANGED clientVars
    \/ Deliver
    \/ \E s \in Sockets : OnDraftStateUpdated(s)
    \/ \E s \in Sockets : OnPlayersUpdated(s)
    \/ \E s \in Sockets : OnJoined(s)
    \/ \E s \in Sockets : OnJoinedAsWatcher(s)
    \/ \E s \in Sockets : ReceiveJoinDraft(s)
    \/ \E s \in Sockets : ReceiveJoinAsWatcher(s)

SpecClient == InitClient /\ [][NextClient]_vars /\ WF_vars(NextClient)

(***************************************************************************)
(* Vocabulary of the properties.                                           *)
(***************************************************************************)
PickedIds == {picks[i].playerId : i \in 1..Len(picks)}

Rosters == [i \in 1..Len(teams) |-> teams[i].roster]

\* the players a team holds, whatever the slot
Held(team) ==
    UNION {{team.roster[slot][i] : i \in 1..Len(team.roster[slot])} : slot \in RosterSlots}

HeldOf(team, positions) ==
    Cardinality({p \in Held(team) : allPlayers[p] \in positions})

\* what a rejected request leaves alone
DraftUnchanged ==
    /\ UNCHANGED <<phase, currentPickIndex, picks, draftedPlayerIds, draftOrder, paused>>
    /\ teams' = teams

\* the request of connection s was answered with an error, to s alone
RejectedWith(s, msg) == out' = <<Error(s, msg)>>

Rejected(s) == Len(out') = 1 /\ out'[1].ev = "error" /\ out'[1].to = s

BoundToCurrentPicker(s) ==
    getCurrentPicker # 0 /\ teams[getCurrentPicker].socketId = s

LastPick == picks[Len(picks)]

(***************************************************************************)
(* C1: draftedPlayerIds is exactly the set of the playerId values of the   *)
(* picks list, in every reachable state.                                   *)
(***************************************************************************)
C1_DraftedIdsArePickedIds == draftedPlayerIds = PickedIds

\* a pick other than the latest was undone and picks were made around it
C1_Witness ==
    undone > 0 /\ Len(picks) >= 2 /\ picks[1].pickNumber # 1

(***************************************************************************)
(* C2: every team holds at most 1 QB, 2 RB, 3 WR or TE together and 1 K,   *)
(* each in the slot of its position; and a pick that passes the earlier    *)
(* checks for a player whose slot is at quota, or whose position is        *)
(* unknown, is answered with the slot-full error and changes nothing.      *)
(***************************************************************************)
C2_WithinQuota ==
    \A t \in 1..Len(teams) :
        /\ HeldOf(teams[t], {"QB"}) <= 1
        /\ HeldOf(teams[t], {"RB"}) <= 2
        /\ HeldOf(teams[t], {"WR", "TE"}) <= 3
        /\ HeldOf(teams[t], {"K"}) <= 1
        /\ Len(teams[t].roster.QB) + Len(teams[t].roster.RB)
             + Len(teams[t].roster.WR_TE) + Len(teams[t].roster.K)
           = Cardinality(Held(teams[t]))
        /\ Held(teams[t]) \subseteq
             {p \in PlayerIds : allPlayers[p] \in {"QB", "RB", "WR", "TE", "K"}}

C2_AtQuota(team, position) ==
    \/ position = "QB" /\ HeldOf(team, {"QB"}) >= 1
    \/ position = "RB" /\ HeldOf(team, {"RB"}) >= 2
    \/ position \in {"WR", "TE"} /\ HeldOf(team, {"WR", "TE"}) >= 3
    \/ position = "K" /\ HeldOf(team, {"K"}) >= 1
    \/ position \notin {"QB", "RB", "WR", "TE", "K"}

C2_SlotFullStep ==
    \A s \in Sockets, p \in PlayerIds :
        ( /\ phase = "drafting" /\ ~paused
          /\ findTeamBySocketId(s) # 0
          /\ getCurrentPicker = findTeamBySocketId(s)
          /\ p \notin draftedPlayerIds
          /\ C2_AtQuota(teams[findTeamBySocketId(s)], allPlayers[p])
          /\ DraftPlayer(s, p) )
        => RejectedWith(s, ErrSlotFull(allPlayers[p])) /\ DraftUnchanged

C3_IndexIsPickCount == phase = "drafting" => currentPickIndex = Len(picks)

\* a pick made after the undo of an earlier pick repeats a pick number
C3_Witness ==
    /\ phase = "drafting"
    /\ \E i, j \in 1..Len(picks) : i < j /\ picks[i].pickNumber = picks[j].pickNumber

(***************************************************************************)
(* C4: when the phase is complete the picks list has 7 entries per team.   *)
(***************************************************************************)
C4_CompleteHasAllPicks == phase = "complete" => Len(picks) = 7 * Len(teams)

\* a draft that completed although a pick was undone on the way
C4_Witness == phase = "complete" /\ undone > 0


(***************************************************************************)
(* C5: the phase moves only from setup to drafting and from drafting to    *)
(* complete, and once it is complete no step changes the phase, the picks  *)
(* list, a roster, the claimed set or currentPickIndex.                    *)
(***************************************************************************)
C5_PhaseStep ==
    /\ phase' # phase =>
          \/ phase = "setup" /\ phase' = "drafting"
          \/ phase = "drafting" /\ phase' = "complete"
    /\ phase = "complete" =>
          /\ phase' = "complete"
          /\ picks' = picks
          /\ Rosters' = Rosters
          /\ draftedPlayerIds' = draftedPlayerIds
          /\ currentPickIndex' = currentPickIndex

C5_PhaseOnlyForward == [][C5_PhaseStep]_vars

\* a pick, pause, resume or undo was tried after the draft was complete
C5_Witness ==
    phase = "complete" /\ \E s \in Sockets : out = <<Error(s, ErrNotDrafting)>>

(***************************************************************************)
(* C6, as stated: while drafting, a pick from a connection that is not     *)
(* bound to the current picker is rejected with the not-your-turn error    *)
(* and changes nothing.                                                    *)
(***************************************************************************)
AllPickIds == PlayerIds \cup {NoSuchPlayer}

C6_OriginalStep ==
    \A s \in Sockets, p \in AllPickIds :
        (phase = "drafting" /\ ~BoundToCurrentPicker(s) /\ DraftPlayer(s, p))
        => RejectedWith(s, ErrNotYourTurn) /\ DraftUnchanged

C6_AmendedStep ==
    \A s \in Sockets, p \in AllPickIds :
        (phase = "drafting" /\ ~BoundToCurrentPicker(s) /\ DraftPlayer(s, p))
        => /\ Rejected(s)
           /\ DraftUnchanged
           /\ (~paused /\ findTeamBySocketId(s) # 0) => RejectedWith(s, ErrNotYourTurn)
           /\ paused => RejectedWith(s, ErrPaused)
           /\ (~paused /\ findTeamBySocketId(s) = 0) => RejectedWith(s, ErrNotRegistered)

AcceptedPick == out' # <<>> /\ out'[1].ev = "player-drafted"

\* a request is accepted only for an unclaimed item and only from the team
\* on the clock; the item is then claimed once, held once and picked once
C7_Winner ==
    \A s \in Sockets, p \in AllPickIds :
        (DraftPlayer(s, p) /\ AcceptedPick)
        => /\ p \notin draftedPlayerIds
           /\ findTeamBySocketId(s) # 0
           /\ teams[findTeamBySocketId(s)].id = draftOrder[currentPickIndex + 1]
           /\ draftedPlayerIds' = draftedPlayerIds \cup {p}
           /\ Cardinality(draftedPlayerIds') = Cardinality(draftedPlayerIds) + 1
           /\ Cardinality({i \in 1..Len(picks') : picks'[i].playerId = p}) = 1
           /\ Cardinality({i \in 1..Len(teams') : p \in Held(teams'[i])}) = 1
           /\ \A i \in 1..Len(teams') : HeldOf(teams'[i], {allPlayers[p]}) =
                 HeldOf(teams[i], {allPlayers[p]})
                 + (IF i = findTeamBySocketId(s) THEN 1 ELSE 0)

\* the other request, for the item that is now claimed, from a connection
\* of a team while the draft is not paused
C7_LoserOriginal ==
    \A s \in Sockets, p \in PlayerIds :
        ( /\ p \in draftedPlayerIds /\ ~paused
          /\ findTeamBySocketId(s) # 0
          /\ DraftPlayer(s, p) )
        => /\ RejectedWith(s, ErrAlreadyDrafted) \/ RejectedWith(s, ErrNotYourTurn)
           /\ DraftUnchanged

C7_LoserAmended ==
    \A s \in Sockets, p \in PlayerIds :
        ( /\ p \in draftedPlayerIds /\ ~paused
          /\ findTeamBySocketId(s) # 0
          /\ DraftPlayer(s, p) )
        => /\ IF phase = "complete"
              THEN RejectedWith(s, ErrNotDrafting)
              ELSE RejectedWith(s, ErrAlreadyDrafted) \/ RejectedWith(s, ErrNotYourTurn)
           /\ DraftUnchanged

C8_Repeat(s, p) ==
    /\ picks # <<>>
    /\ p = LastPick.playerId
    /\ p \in draftedPlayerIds
    /\ ~paused
    /\ findTeamBySocketId(s) # 0
    /\ teams[findTeamBySocketId(s)].id = LastPick.teamId
    /\ DraftPlayer(s, p)

(***************************************************************************)
(* C8, as stated: the second of two requests of the current picker's       *)
(* connection for the same item is rejected with already-drafted, and the  *)
(* claimed set grew by one only.                                           *)
(***************************************************************************)
C8_OriginalStep ==
    \A s \in Sockets, p \in PlayerIds :
        C8_Repeat(s, p) => RejectedWith(s, ErrAlreadyDrafted) /\ DraftUnchanged

C8_Original == [][C8_OriginalStep]_vars

(***************************************************************************)
(* C8, amended: the second request is rejected and changes nothing (the    *)
(* claimed set grew by one only); the reason is already-drafted when the   *)
(* same team is still on the clock, not-your-turn when the turn passed to  *)
(* another team, not-in-progress when the first pick completed the draft.  *)
(***************************************************************************)
C8_AmendedStep ==
    \A s \in Sockets, p \in PlayerIds :
        C8_Repeat(s, p)
        => /\ DraftUnchanged
           /\ Cardinality(draftedPlayerIds') = Cardinality(draftedPlayerIds)
           /\ RejectedWith(s,
                 IF phase = "complete" THEN ErrNotDrafting
                 ELSE IF draftOrder[currentPickIndex + 1] = LastPick.teamId
                      THEN ErrAlreadyDrafted
                      ELSE ErrNotYourTurn)

C8_RepeatRejected == [][C8_AmendedStep]_vars

\* the team that made the latest pick is on the clock again and was told
\* that the item is taken
C8_Witness ==
    /\ picks # <<>>
    /\ phase = "drafting"
    /\ draftOrder[currentPickIndex + 1] = LastPick.teamId
    /\ \E s \in Sockets :
          /\ out = <<Error(s, ErrAlreadyDrafted)>>
          /\ findTeamBySocketId(s) # 0
          /\ teams[findTeamBySocketId(s)].id = LastPick.teamId

(***************************************************************************)
(* C9: the reason of a rejected pick is that of the first check that       *)
(* fails, in the order not-drafting, paused, not-registered,               *)
(* not-your-turn, unknown item, already drafted, slot full.                *)
(***************************************************************************)
C9_Step ==
    \A s \in Sockets, p \in AllPickIds :
        DraftPlayer(s, p) =>
        LET t == findTeamBySocketId(s)
            c1 == phase = "drafting"
            c2 == ~paused
            c3 == t # 0
            c4 == teams[t].id = draftOrder[currentPickIndex + 1]
            c5 == p \in PlayerIds
            c6 == p \notin draftedPlayerIds
            c7 == ~C2_AtQuota(teams[t], allPlayers[p])
        IN  /\ ~c1 => RejectedWith(s, ErrNotDrafting)
            /\ (c1 /\ ~c2) => RejectedWith(s, ErrPaused)
            /\ (c1 /\ c2 /\ ~c3) => RejectedWith(s, ErrNotRegistered)
            /\ (c1 /\ c2 /\ c3 /\ ~c4) => RejectedWith(s, ErrNotYourTurn)
            /\ (c1 /\ c2 /\ c3 /\ c4 /\ ~c5) => RejectedWith(s, ErrPlayerNotFound)
            /\ (c1 /\ c2 /\ c3 /\ c4 /\ c5 /\ ~c6) => RejectedWith(s, ErrAlreadyDrafted)
            /\ (c1 /\ c2 /\ c3 /\ c4 /\ c5 /\ c6 /\ ~c7)
                  => RejectedWith(s, ErrSlotFull(allPlayers[p]))
            /\ (c1 /\ c2 /\ c3 /\ c4 /\ c5 /\ c6 /\ c7) => AcceptedPick

C10_SlotOf(p) ==
    IF allPlayers[p] \in {"WR", "TE"} THEN "WR_TE" ELSE allPlayers[p]

C10_Step ==
    /\ \A s \in Sockets, p \in AllPickIds :
          (DraftPlayer(s, p) /\ AcceptedPick) =>
          LET t == findTeamBySocketId(s) IN
          /\ Len(teams') = Len(teams)
          /\ \A u \in 1..Len(teams) : u # t => teams'[u] = teams[u]
          /\ teams'[t].id = teams[t].id
          /\ teams'[t].name = teams[t].name
          /\ teams'[t].socketId = teams[t].socketId
          /\ \A slot \in RosterSlots :
                teams'[t].roster[slot] =
                   IF slot = C10_SlotOf(p)
                   THEN Append(teams[t].roster[slot], p)
                   ELSE teams[t].roster[slot]
          /\ draftedPlayerIds' = draftedPlayerIds \cup {p}
          /\ picks' = Append(picks, [teamId |-> teams[t].id, playerId |-> p,
                                     pickNumber |-> currentPickIndex + 1])
          /\ currentPickIndex' = currentPickIndex + 1
    /\ Len(picks') > Len(picks) => AcceptedPick

C10_PickEffect == [][C10_Step]_vars

\* a tight end was drafted into a WR/TE slot that already held a player
C10_Witness ==
    /\ out # <<>>
    /\ out[1].ev = "player-drafted"
    /\ out[1].playerPosition = "TE"
    /\ \E t \in 1..Len(teams) :
          /\ teams[t].id = out[1].teamId
          /\ Len(teams[t].roster.WR_TE) >= 2
          /\ teams[t].roster.WR_TE[Len(teams[t].roster.WR_TE)] = out[1].playerId

(***************************************************************************)
(* Vocabulary of the properties of start, pause, undo and join.            *)
(***************************************************************************)
\* nothing of the session changed (the emitted messages aside)
SessionUnchanged ==
    UNCHANGED <<draftVars, teams, watchers, chatMessages, saved>>

TeamIds(teamList) == {teamList[i].id : i \in 1..Len(teamList)}

\* order is 7 rounds over the teams of teamList: every round names every
\* team once and is the reverse of the round before it
IsSnakeOrder(order, teamList) ==
    LET n == Len(teamList) IN
    /\ Len(order) = 7 * n
    /\ \A id \in TeamIds(teamList) :
          Cardinality({i \in 1..Len(order) : order[i] = id}) = 7
    /\ \A r \in 0..6 : {order[r * n + k] : k \in 1..n} = TeamIds(teamList)
    /\ \A r \in 1..6, k \in 1..n : order[r * n + k] = order[(r - 1) * n + (n + 1 - k)]

(***************************************************************************)
(* C11: the phase becomes complete exactly in the step of an accepted pick *)
(* that brings currentPickIndex to 7 times the number of teams; the        *)
(* results are saved exactly once, in that step, and never while the phase *)
(* is not complete.                                                        *)
(***************************************************************************)
C11_SavedOnceWhenComplete == saved = (IF phase = "complete" THEN 1 ELSE 0)

C11_Step ==
    /\ (phase # "complete" /\ phase' = "complete")
         <=> ( /\ AcceptedPick
               /\ currentPickIndex' = currentPickIndex + 1
               /\ currentPickIndex' = 7 * Len(teams) )
    /\ saved' # saved => (phase # "complete" /\ phase' = "complete" /\ saved' = saved + 1)

C11_CompletionAndExport == []C11_SavedOnceWhenComplete /\ [][C11_Step]_vars

\* the state right after the pick that completed a draft of two teams
C11_Witness ==
    /\ phase = "complete" /\ saved = 1
    /\ out # <<>> /\ out[1].ev = "player-drafted" /\ out[1].pickNumber = 7 * Len(teams)

(***************************************************************************)
(* C12: start is rejected with the already-started error unless the phase  *)
(* is setup, and with the too-few-teams error unless two teams are         *)
(* registered, and then changes nothing; an accepted start leaves the      *)
(* phase drafting, currentPickIndex 0, paused false and draftOrder a snake *)
(* order over the registered teams.                                        *)
(***************************************************************************)
C12_Step ==
    \A s \in Sockets, perm \in Shuffles(Len(teams)) :
        StartDraft(s, perm) =>
        /\ phase # "setup" => RejectedWith(s, ErrStarted) /\ SessionUnchanged
        /\ (phase = "setup" /\ Len(teams) < 2)
              => RejectedWith(s, ErrTooFew) /\ SessionUnchanged
        /\ (phase = "setup" /\ Len(teams) >= 2)
              => /\ phase' = "drafting"
                 /\ currentPickIndex' = 0
                 /\ paused' = FALSE
                 /\ IsSnakeOrder(draftOrder', teams)
                 /\ teams' = teams /\ picks' = picks
                 /\ draftedPlayerIds' = draftedPlayerIds

C12_StartDraft == [][C12_Step]_vars

\* a draft was started, and a second start was refused
C12_Witness ==
    /\ phase = "drafting" /\ currentPickIndex = 0
    /\ \E s \in Sockets : out = <<Error(s, ErrStarted)>>

(***************************************************************************)
(* C13: for every list of 2 to 8 teams and every outcome of the shuffle    *)
(* the generated draft order has 7 entries per team, names every team      *)
(* exactly 7 times, once in every round, and every round is the reverse of *)
(* the round before it.                                                    *)
(***************************************************************************)
C13_SnakeOrder ==
    phase = "drafting" =>
        /\ Len(teams) \in 2..8
        /\ IsSnakeOrder(draftOrder, teams)

\* eight teams, and the shuffle moved the first team off the first pick
C13_Witness ==
    /\ phase = "drafting" /\ Len(teams) = 8
    /\ draftOrder[1] = teams[5].id /\ draftOrder[2] = teams[1].id

(***************************************************************************)
(* C14: pause, resume and undo from a connection that does not resolve to  *)
(* the team named exactly 'BD Crushers' (a connection of no team, of a     *)
(* spectator, of a team whose name differs in case) are answered with      *)
(* Unauthorized in every phase and change nothing.                         *)
(***************************************************************************)
\* the first team of the list that holds connection s, if any, is not named
\* exactly 'BD Crushers'
C14_Unprivileged(s) ==
    \A i \in 1..Len(teams) :
        (teams[i].socketId = s /\ \A j \in 1..(i - 1) : teams[j].socketId # s)
        => teams[i].name # PrivilegedName

C14_Step ==
    \A s \in Sockets :
        C14_Unprivileged(s) =>
        /\ PauseDraft(s) => RejectedWith(s, ErrUnauthorized) /\ SessionUnchanged
        /\ ResumeDraft(s) => RejectedWith(s, ErrUnauthorized) /\ SessionUnchanged
        /\ \A pickNumber \in 0..(Len(picks) + 1) :
              UndoPick(s, pickNumber)
              => RejectedWith(s, ErrUnauthorized) /\ SessionUnchanged

C14_Unauthorized == [][C14_Step]_vars

\* the team 'bd crushers' was refused while a draft was in progress
C14_Witness ==
    /\ phase = "drafting" /\ picks # <<>>
    /\ \E s \in Sockets :
          /\ out = <<Error(s, ErrUnauthorized)>>
          /\ findTeamBySocketId(s) # 0
          /\ teams[findTeamBySocketId(s)].name = toLowerCase(PrivilegedName)

(***************************************************************************)
(* C15: while the draft is paused every pick request, that of the team on  *)
(* the clock for an available player included, is answered with the        *)
(* paused error and leaves picks, rosters, claimed set and                 *)
(* currentPickIndex alone; the draft stays paused until a resume request   *)
(* is accepted.                                                            *)
(***************************************************************************)
C15_Step ==
    /\ \A s \in Sockets, p \in AllPickIds :
          (paused /\ DraftPlayer(s, p)) => RejectedWith(s, ErrPaused) /\ DraftUnchanged
    /\ (paused /\ ~paused')
          => \E s \in Sockets :
                /\ ResumeDraft(s)
                /\ ~C14_Unprivileged(s)
                /\ out' = <<StateUpdated(Everyone)'>>

C15_NoPickWhilePaused == [][C15_Step]_vars

\* the team on the clock asked for a player while the draft was paused
C15_Witness ==
    /\ paused
    /\ \E s \in Sockets : out = <<Error(s, ErrPaused)>> /\ BoundToCurrentPicker(s)
    /\ \E p \in getAvailablePlayers :
          ~C2_AtQuota(teams[getCurrentPicker], allPlayers[p])

(***************************************************************************)
(* C16: an accepted undo of pick number n removes exactly one pick, one    *)
(* with that number, from the picks list, removes its player from the      *)
(* roster slot of the team that made the pick and from the claimed set,    *)
(* and takes 1 off currentPickIndex; phase, paused, draftOrder, the other  *)
(* picks and the other roster entries stay.                                *)
(***************************************************************************)
C16_Without(seq, p) == LET keep(x) == x # p IN SelectSeq(seq, keep)

C16_Step ==
    \A s \in Sockets, n \in 0..(Len(picks) + 1) :
        (UndoPick(s, n) /\ out' = <<StateUpdated(Everyone)', PlayersUpdated(Everyone)>>)
        => \E i \in 1..Len(picks) :
              /\ picks[i].pickNumber = n
              /\ picks' = [j \in 1..(Len(picks) - 1) |->
                              IF j < i THEN picks[j] ELSE picks[j + 1]]
              /\ picks[i].playerId \in draftedPlayerIds
              /\ draftedPlayerIds' = draftedPlayerIds \ {picks[i].playerId}
              /\ currentPickIndex' = currentPickIndex - 1
              /\ UNCHANGED <<phase, paused, draftOrder>>
              /\ Len(teams') = Len(teams)
              /\ \A t \in 1..Len(teams) :
                    /\ teams'[t].id = teams[t].id
                    /\ teams'[t].name = teams[t].name
                    /\ teams'[t].socketId = teams[t].socketId
                    /\ teams[t].id # picks[i].teamId => teams'[t].roster = teams[t].roster
                    /\ teams[t].id = picks[i].teamId =>
                          /\ picks[i].playerId \in Held(teams[t])
                          /\ \A slot \in RosterSlots :
                                teams'[t].roster[slot] =
                                   C16_Without(teams[t].roster[slot], picks[i].playerId)

C16_UndoEffect == [][C16_Step]_vars

\* the first pick of a draft was undone after later picks were made
C16_Witness ==
    /\ undone > 0 /\ paused
    /\ out = <<StateUpdated(Everyone), PlayersUpdated(Everyone)>>
    /\ Len(picks) >= 2 /\ picks[1].pickNumber = 2

(***************************************************************************)
(* C17: an undo request of the connection of the team named 'BD Crushers'  *)
(* is rejected and changes nothing when the phase is not drafting          *)
(* (not-in-progress error), else when the draft is not paused              *)
(* (must-be-paused error), else when no pick has the number                *)
(* (pick-not-found error).                                                 *)
(***************************************************************************)
C17_Step ==
    \A s \in Sockets, n \in 0..(Len(picks) + 1) :
        (~C14_Unprivileged(s) /\ UndoPick(s, n)) =>
        /\ phase # "drafting" => RejectedWith(s, ErrNotDrafting) /\ SessionUnchanged
        /\ (phase = "drafting" /\ ~paused)
              => RejectedWith(s, ErrMustBePaused) /\ SessionUnchanged
        /\ ( /\ phase = "drafting" /\ paused
             /\ \A i \in 1..Len(picks) : picks[i].pickNumber # n )
              => RejectedWith(s, ErrPickNotFound) /\ SessionUnchanged

C17_UndoErrors == [][C17_Step]_vars

\* a pick number that no pick has was asked for while paused
C17_Witness ==
    /\ phase = "drafting" /\ paused /\ picks # <<>>
    /\ \E s \in Sockets : out = <<Error(s, ErrPickNotFound)>>

(***************************************************************************)
(* C18: after a pause, the undo of any existing pick and a resume, picking *)
(* continues: the team that is then on the clock can have a pick accepted, *)
(* that is, some available player has a position within that team's quota. *)
(* Stated for the undo of a pick that is not the latest: the state right   *)
(* after the resume, before any pick is made, is the one where the latest  *)
(* pick has a number above the number of picks.                            *)
(***************************************************************************)
C18_PickingContinues ==
    ( /\ phase = "drafting" /\ ~paused /\ undone > 0
      /\ out = <<StateUpdated(Everyone)>>
      /\ picks # <<>> /\ LastPick.pickNumber = Len(picks) + 1
      /\ \A i, j \in 1..Len(picks) : picks[i].pickNumber = picks[j].pickNumber => i = j )
    => \E p \in getAvailablePlayers :
          ~C2_AtQuota(teams[getCurrentPicker], allPlayers[p])

(***************************************************************************)
(* C19: a join with a name that matches a registered team without regard   *)
(* to case is accepted in every phase, sets that team's connection to the  *)
(* calling connection and leaves the number of teams and every team's id,  *)
(* name and roster alone; the same join once more changes nothing.         *)
(***************************************************************************)
C19_Matches(name) ==
    {i \in 1..Len(teams) : toLowerCase(teams[i].name) = toLowerCase(trim(name))}

C19_Step ==
    \A s \in Sockets, name \in TeamNameInputs :
        (JoinDraft(s, name) /\ trim(name) # <<>> /\ C19_Matches(name) # {})
        => \E i \in C19_Matches(name) :
              /\ out' = <<[ev |-> "joined", to |-> s, teamId |-> teams[i].id,
                           teamName |-> teams[i].name],
                          StateUpdated(Everyone)'>>
              /\ Len(teams') = Len(teams)
              /\ teams'[i].socketId = s
              /\ \A t \in 1..Len(teams) :
                    /\ teams'[t].id = teams[t].id
                    /\ teams'[t].name = teams[t].name
                    /\ teams'[t].roster = teams[t].roster
                    /\ t # i => teams'[t].socketId = teams[t].socketId
              /\ UNCHANGED <<draftVars, watchers, chatMessages, saved>>
              /\ teams[i].socketId = s => teams' = teams

C20_AtMostEightTeams == Len(teams) <= 8

C20_Step ==
    \A s \in Sockets, name \in FullNameInputs :
        (JoinDraft(s, name) /\ trim(name) # <<>> /\ C19_Matches(name) = {}) =>
        /\ phase # "setup" => RejectedWith(s, ErrAlreadyStarted) /\ SessionUnchanged
        /\ (phase = "setup" /\ Len(teams) >= 8)
              => RejectedWith(s, ErrFull) /\ SessionUnchanged

C20_JoinErrors == []C20_AtMostEightTeams /\ [][C20_Step]_vars

\* a ninth name was refused during setup
C20_Witness ==
    /\ phase = "setup" /\ Len(teams) = 8
    /\ \E s \in Sockets : out = <<Error(s, ErrFull)>>

(***************************************************************************)
(* C21: in every reachable state no two teams have names that are equal    *)
(* without regard to case, after trimming; the id and the name of a team   *)
(* never change once the team is in the list.                              *)
(***************************************************************************)
C21_UniqueNames ==
    \A i, j \in 1..Len(teams) :
        toLowerCase(trim(teams[i].name)) = toLowerCase(trim(teams[j].name)) => i = j

C21_Step ==
    /\ Len(teams') >= Len(teams)
    /\ \A t \in 1..Len(teams) :
          teams'[t].id = teams[t].id /\ teams'[t].name = teams[t].name

C21_TeamIdentity == []C21_UniqueNames /\ [][C21_Step]_vars

\* with two teams registered, the team that took the name 'bd crushers' was
\* joined again after the start of the draft
C21_Witness ==
    /\ Len(teams) = 2
    /\ out # <<>> /\ out[1].ev = "joined"
    /\ \E t \in 1..Len(teams) :
          /\ teams[t].id = out[1].teamId
          /\ teams[t].name = toLowerCase(PrivilegedName)
          /\ phase # "setup"

(***************************************************************************)
(* C22: a team is added only by a join request during setup, one at a      *)
(* time, and no team is ever removed; once the phase is not setup the list *)
(* of teams (their number, ids and names) and draftOrder never change.     *)
(***************************************************************************)
C22_Step ==
    /\ Len(teams') >= Len(teams)
    /\ \A t \in 1..Len(teams) :
          teams'[t].id = teams[t].id /\ teams'[t].name = teams[t].name
    /\ Len(teams') > Len(teams)
          => /\ phase = "setup"
             /\ Len(teams') = Len(teams) + 1
             /\ \E s \in Sockets, name \in FullNameInputs : JoinDraft(s, name)
    /\ phase # "setup"
          => /\ draftOrder' = draftOrder
             /\ Len(teams') = Len(teams)

C22_TeamsFixedAfterStart == [][C22_Step]_vars

\* a new name was refused after a draft of three teams was started
C22_Witness ==
    /\ phase = "drafting"
    /\ Len(teams) = 3 /\ Len(draftOrder) = 21
    /\ \E s \in Sockets : out = <<Error(s, ErrAlreadyStarted)>>

(***************************************************************************)
(* C23: when a join request of connection c adds a team, every team that   *)
(* was bound to c before the request is unbound, so that right after the   *)
(* request the new team is the only team bound to c.                       *)
(***************************************************************************)
C23_Step ==
    \A s \in Sockets, name \in FullNameInputs :
        (JoinDraft(s, name) /\ Len(teams') = Len(teams) + 1)
        => /\ \A t \in 1..Len(teams) : teams'[t].socketId # s
           /\ {t \in 1..Len(teams') : teams'[t].socketId = s} = {Len(teams')}

C23_OneTeamAfterCreation == [][C23_Step]_vars

(***************************************************************************)
(* C24: after a team is joined again by name from a connection other than  *)
(* the one it was bound to, the team is bound to the new connection only;  *)
(* on the team's turn a pick request of the connection it was bound to     *)
(* before is refused, and a pick request of the new connection for an      *)
(* available player within the team's quota passes the validation.         *)
(* The outcome of the requests is that of the validation of draft-player   *)
(* in the state the join leaves.                                           *)
(***************************************************************************)
C24_Step ==
    \A s \in Sockets, name \in TeamNameInputs :
        (JoinDraft(s, name) /\ trim(name) # <<>> /\ C19_Matches(name) # {})
        => \A i \in C19_Matches(name) :
              teams[i].socketId # s =>
              /\ teams'[i].socketId = s
              /\ (getCurrentPicker' = i /\ ~paused') =>
                    /\ \A old \in Sockets, p \in AllPickIds :
                          old = teams[i].socketId => DraftPlayerError(old, p)' # Ok
                    /\ \A p \in getAvailablePlayers' :
                          canDraftPosition(teams'[i], allPlayers[p])
                          => DraftPlayerError(s, p)' = Ok

C24_ControlPasses == [][C24_Step]_vars

(***************************************************************************)
(* C25: the disconnect of connection c leaves no team and no spectator     *)
(* bound to c, emits no error, is idempotent (unbinding c once more        *)
(* changes nothing) and changes nothing else: the teams and spectators     *)
(* stay, with their ids, names and rosters and the bindings to other       *)
(* connections, and the draft, the chat and the saved results are as       *)
(* before.                                                                 *)
(***************************************************************************)
C25_Step ==
    \A s \in Sockets :
        Disconnect(s) =>
        /\ \A t \in 1..Len(teams') : teams'[t].socketId # s
        /\ \A w \in 1..Len(watchers') : watchers'[w].socketId # s
        /\ out' = <<>>
        /\ UnbindTeam(s)' = teams' /\ UnbindWatcher(s)' = watchers'
        /\ Len(teams') = Len(teams) /\ Len(watchers') = Len(watchers)
        /\ \A t \in 1..Len(teams) :
              /\ teams'[t].id = teams[t].id /\ teams'[t].name = teams[t].name
              /\ teams'[t].roster = teams[t].roster
              /\ teams[t].socketId # s => teams'[t].socketId = teams[t].socketId
        /\ \A w \in 1..Len(watchers) :
              /\ watchers'[w].id = watchers[w].id /\ watchers'[w].name = watchers[w].name
              /\ watchers[w].socketId # s => watchers'[w].socketId = watchers[w].socketId
        /\ UNCHANGED <<draftVars, chatMessages, saved>>

C25_DisconnectUnbinds == [][C25_Step]_vars

(***************************************************************************)
(* C26: a join-as-watcher request with a name that equals a registered     *)
(* team's name without regard to case is rejected in every phase and       *)
(* creates or rebinds no spectator; with any other name that is not empty  *)
(* it is accepted in every phase: the spectator of that name, if there is  *)
(* one, is bound to the connection, otherwise a spectator is added; no two *)
(* spectators have the same name.                                          *)
(***************************************************************************)
C26_Watchers(name) ==
    {w \in 1..Len(watchers) : toLowerCase(watchers[w].name) = toLowerCase(trim(name))}

C26_NoDuplicate ==
    \A v, w \in 1..Len(watchers) :
        toLowerCase(watchers[v].name) = toLowerCase(watchers[w].name) => v = w

C26_Step ==
    \A s \in Sockets, name \in WatcherNameInputs :
        (JoinAsWatcher(s, name) /\ trim(name) # <<>>) =>
        /\ C19_Matches(name) # {} => RejectedWith(s, ErrNameIsTeam) /\ SessionUnchanged
        /\ (C19_Matches(name) = {} /\ C26_Watchers(name) # {})
              => \E w \in C26_Watchers(name) :
                    /\ out' = <<[ev |-> "joined-as-watcher", to |-> s,
                                 watcherId |-> watchers[w].id,
                                 watcherName |-> watchers[w].name],
                                StateUpdated(Everyone)'>>
                    /\ watchers' = [watchers EXCEPT ![w].socketId = s]
        /\ (C19_Matches(name) = {} /\ C26_Watchers(name) = {})
              => /\ Len(watchers') = Len(watchers) + 1
                 /\ SubSeq(watchers', 1, Len(watchers)) = watchers
                 /\ watchers'[Len(watchers')].name = trim(name)
                 /\ watchers'[Len(watchers')].socketId = s
                 /\ out' = <<[ev |-> "joined-as-watcher", to |-> s,
                              watcherId |-> watchers'[Len(watchers')].id,
                              watcherName |-> trim(name)],
                             StateUpdated(Everyone)'>>
        /\ UNCHANGED <<draftVars, teams, chatMessages, saved>>

C27_Refused(s) == Rejected(s) /\ SessionUnchanged

C27_Step ==
    /\ \A s \in Sockets :
          /\ \A name \in TeamNameInputs :
                (JoinDraft(s, name) /\ JoinDraftError(name) # Ok) => C27_Refused(s)
          /\ \A name \in WatcherNameInputs :
                (JoinAsWatcher(s, name) /\ JoinAsWatcherError(name) # Ok)
                => C27_Refused(s)
          /\ \A perm \in Shuffles(Len(teams)) :
                (StartDraft(s, perm) /\ StartDraftError # Ok) => C27_Refused(s)
          /\ \A p \in AllPickIds :
                (DraftPlayer(s, p) /\ DraftPlayerError(s, p) # Ok) => C27_Refused(s)
          /\ (PauseDraft(s) /\ PauseError(s) # Ok) => C27_Refused(s)
          /\ (ResumeDraft(s) /\ PauseError(s) # Ok) => C27_Refused(s)
          /\ \A n \in 0..(Len(picks) + 1) :
                (UndoPick(s, n) /\ UndoPickError(s, n) # Ok) => C27_Refused(s)
    /\ (\E k \in 1..Len(out') : out'[k].ev = "error")
          => /\ Len(out') = 1
             /\ out'[1].to \in Sockets
             /\ SessionUnchanged

C27_RejectionsAreLocal == [][C27_Step]_vars

\* a join-as-watcher request without a name was refused after the draft was
\* complete
C27_Witness ==
    /\ phase = "complete" /\ saved = 1
    /\ \E s \in Sockets : out = <<Error(s, ErrEmptyName)>>

(***************************************************************************)
(* C28: every accepted mutation (join-draft, start-draft, draft-player,    *)
(* pause-draft, resume-draft, undo-pick) emits exactly one snapshot to     *)
(* every connection, which shows the state the mutation leaves, and at     *)
(* most one more message to every connection.                              *)
(***************************************************************************)
\* the step is an accepted request of one of the six kinds.  The first
\* conjunct of a disjunct follows from the handler that comes after it (an
\* accepted join-draft answers with 'joined', an accepted start-draft leaves
\* setup, an accepted pick moves currentPickIndex, an accepted undo
\* shortens picks) and spares its evaluation in the other steps.
C28_Accepted ==
    \E s \in Sockets :
        /\ Handles(s)
        /\ \/ /\ out' # <<>> /\ out'[1].ev = "joined"
              /\ \E name \in TeamNameInputs :
                    JoinDraftError(name) = Ok /\ JoinDraft(s, name)
           \/ /\ phase = "setup" /\ phase' = "drafting"
              /\ StartDraftError = Ok
              /\ \E perm \in Shuffles(Len(teams)) : StartDraft(s, perm)
           \/ /\ currentPickIndex' = currentPickIndex + 1
              /\ \E p \in AllPickIds : DraftPlayerError(s, p) = Ok /\ DraftPlayer(s, p)
           \/ PauseError(s) = Ok /\ PauseDraft(s)
           \/ PauseError(s) = Ok /\ ResumeDraft(s)
           \/ /\ Len(picks') < Len(picks)
              /\ \E n \in 0..(Len(picks) + 1) :
                    UndoPickError(s, n) = Ok /\ UndoPick(s, n)

\* the positions of the emitted messages that are snapshots to everyone, and
\* of the other messages to everyone
C28_Snapshots ==
    {k \in 1..Len(out') : out'[k].to = Everyone /\ out'[k].ev = "draft-state-updated"}

C28_OtherBroadcasts ==
    {k \in 1..Len(out') : out'[k].to = Everyone /\ out'[k].ev # "draft-state-updated"}

C28_ShowsPostState(k) ==
    /\ out'[k].state.phase = phase'
    /\ out'[k].state.teams = teams'
    /\ out'[k].state.watchers =
          [w \in 1..Len(watchers') |-> [id |-> watchers'[w].id, name |-> watchers'[w].name]]
    /\ out'[k].state.draftOrder = draftOrder'
    /\ out'[k].state.currentPickIndex = currentPickIndex'
    /\ out'[k].state.picks = picks'
    /\ out'[k].state.draftedPlayerIds = draftedPlayerIds'
    /\ out'[k].state.paused = paused'

C28_OriginalStep ==
    C28_Accepted =>
        /\ Cardinality(C28_Snapshots) = 1
        /\ \A k \in C28_Snapshots : C28_ShowsPostState(k)
        /\ Cardinality(C28_OtherBroadcasts) <= 1

C28_AmendedStep ==
    C28_Accepted =>
        /\ Cardinality(C28_Snapshots) = 1
        /\ \A k \in C28_Snapshots : C28_ShowsPostState(k)
        /\ IF AcceptedPick
           THEN /\ Len(out') = 3
                /\ out'[1].ev = "player-drafted" /\ out'[1].to = Everyone
                /\ C28_Snapshots = {2}
                /\ out'[3].ev = "players-updated" /\ out'[3].to = Everyone
           ELSE Cardinality(C28_OtherBroadcasts) <= 1

C29_Unregistered(s) ==
    /\ \A t \in 1..Len(teams) : teams[t].socketId # s
    /\ \A w \in 1..Len(watchers) : watchers[w].socketId # s

C29_NoBroadcast == \A k \in 1..Len(out') : out'[k].to # Everyone

C29_OriginalStep ==
    \A s \in Sockets, message \in ChatInputs :
        ChatMessage(s, message) =>
        /\ C29_Unregistered(s) => out' = <<>> /\ SessionUnchanged
        /\ trim(message) = <<>> => C29_NoBroadcast /\ SessionUnchanged

C29_Original == [][C29_OriginalStep]_vars

(***************************************************************************)
(* C29, amended: a chat-message request from a connection that is bound to *)
(* no team and no spectator appends no message and broadcasts nothing; the *)
(* requesting connection alone is sent the error 'You must join the draft  *)
(* to chat'.  A request with an empty or whitespace-only text appends and  *)
(* broadcasts nothing, and from the connection of a team or spectator it   *)
(* is a silent no-op.                                                      *)
(***************************************************************************)
C29_AmendedStep ==
    \A s \in Sockets, message \in ChatInputs :
        ChatMessage(s, message) =>
        /\ C29_Unregistered(s)
              => /\ Len(out') = 1 /\ out'[1].ev = "error" /\ out'[1].to = s
                 /\ out'[1].message = ErrMustJoinToChat
                 /\ SessionUnchanged
        /\ trim(message) = <<>> => C29_NoBroadcast /\ SessionUnchanged
        /\ (~C29_Unregistered(s) /\ trim(message) = <<>>) => out' = <<>>

C29_UnregisteredChat == [][C29_AmendedStep]_vars

\* a connection that had not joined was refused while teams were registered
C29_Witness ==
    /\ teams # <<>>
    /\ \E s \in Sockets : C29_Unregistered(s) /\ out = <<Error(s, ErrMustJoinToChat)>>

(***************************************************************************)
(* C30: the chat buffer never holds more than 100 messages and no stored   *)
(* text is longer than 200 characters; an accepted post puts its message,  *)
(* with the first 200 characters of the trimmed text, at the end of the    *)
(* buffer, keeps the other messages in their order and evicts the oldest   *)
(* one when the buffer held 100; nothing else changes the buffer.  The     *)
(* buffer is therefore the most recent accepted messages in posting order. *)
(***************************************************************************)
C30_Bounded ==
    /\ Len(chatMessages) <= 100
    /\ \A k \in 1..Len(chatMessages) : Len(chatMessages[k].message) <= 200

\* the number of messages an accepted post evicts
C30_Evicted == IF Len(chatMessages) >= 100 THEN 1 ELSE 0

C30_Step ==
    /\ \A s \in Sockets, message \in ChatTextInputs :
          (ChatMessage(s, message) /\ ~C29_Unregistered(s) /\ trim(message) # <<>>)
          => /\ Len(chatMessages') = Len(chatMessages) + 1 - C30_Evicted
             /\ \A k \in 1..(Len(chatMessages') - 1) :
                   chatMessages'[k] = chatMessages[k + C30_Evicted]
             /\ LET text == trim(message)
                    stored == chatMessages'[Len(chatMessages')].message
                IN  /\ Len(stored) = (IF Len(text) > 200 THEN 200 ELSE Len(text))
                    /\ \A i \in 1..Len(stored) : stored[i] = text[i]
    /\ chatMessages' # chatMessages
          => \E s \in Sockets, message \in ChatTextInputs :
                ChatMessage(s, message) /\ ~C29_Unregistered(s) /\ trim(message) # <<>>

C30_ChatBuffer == []C30_Bounded /\ [][C30_Step]_vars

\* two messages were posted to a full buffer, the last one with a text of
\* 201 characters: the two oldest messages are gone
C30_Witness ==
    /\ Len(chatMessages) = 100
    /\ chatMessages[1].message = FillerText(3)
    /\ chatMessages[98].message = FillerText(100)
    /\ chatMessages[99].message = <<"h", "i">>
    /\ Len(chatMessages[100].message) = 200

(***************************************************************************)
(* C31: whenever the phase is complete every team's roster is exactly      *)
(* full: 1 QB, 2 RB, 3 WR or TE and 1 K, 7 players in all, each in the     *)
(* slot of its position; also when picks were undone during the draft.     *)
(***************************************************************************)
C31_Full(team) ==
    /\ Len(team.roster.QB) = 1 /\ Len(team.roster.RB) = 2
    /\ Len(team.roster.WR_TE) = 3 /\ Len(team.roster.K) = 1
    /\ \A slot \in RosterSlots :
          \A i \in 1..Len(team.roster[slot]) :
              /\ team.roster[slot][i] \in PlayerIds
              /\ getRosterSlot(allPlayers[team.roster[slot][i]]) = slot
    /\ Cardinality(Held(team)) = 7

C31_CompleteRostersFull ==
    phase = "complete" => \A t \in 1..Len(teams) : C31_Full(teams[t])

\* a draft in which a pick was undone is complete
C31_Witness == phase = "complete" /\ undone > 0 /\ Len(teams) = 2

(***************************************************************************)
(* C32: in every reachable state of the drafting phase the team on the     *)
(* clock has a roster slot below its limit, so that the draft is never in  *)
(* a state where every pick of the team on the clock is refused because    *)
(* its slots are full.                                                     *)
(***************************************************************************)
C32_HasOpenSlot(team) ==
    \/ Len(team.roster.QB) < LimitQB
    \/ Len(team.roster.RB) < LimitRB
    \/ Len(team.roster.WR_TE) < LimitWRTE
    \/ Len(team.roster.K) < LimitK

C32_PickerHasOpenSlot ==
    (phase = "drafting" /\ getCurrentPicker # 0)
    => C32_HasOpenSlot(teams[getCurrentPicker])

(***************************************************************************)
(* C33: in every reachable state the pickNumber values of the picks list   *)
(* are pairwise distinct, so that an undo request names one pick at most.  *)
(***************************************************************************)
C33_DistinctPickNumbers ==
    \A i, j \in 1..Len(picks) : picks[i].pickNumber = picks[j].pickNumber => i = j

(***************************************************************************)
(* C34: in every reachable state every pick of the picks list was made by  *)
(* the team that owns the position of its pick number in the draft order:  *)
(* its teamId is draftOrder[pickNumber - 1], counting from 0.              *)
(***************************************************************************)
C34_PickByOwnerOfPosition ==
    \A i \in 1..Len(picks) :
        /\ picks[i].pickNumber \in 1..Len(draftOrder)
        /\ picks[i].teamId = draftOrder[picks[i].pickNumber]

\* picks were made after the undo of an earlier pick: two picks have the
\* same number
C34_Witness ==
    /\ undone > 0
    /\ \E i, j \in 1..Len(picks) : i < j /\ picks[i].pickNumber = picks[j].pickNumber

(***************************************************************************)
(* C35: rosters and picks agree in every reachable state: a player is in   *)
(* the roster of team T iff the picks list holds a pick of that player by   *)
(* T, no player is in two rosters or twice in one, and the number of        *)
(* rostered players is the length of the picks list.                        *)
(***************************************************************************)
C35_RosterSize(team) ==
    Len(team.roster.QB) + Len(team.roster.RB)
        + Len(team.roster.WR_TE) + Len(team.roster.K)

RECURSIVE C35_Rostered(_)
C35_Rostered(n) ==
    IF n = 0 THEN 0 ELSE C35_RosterSize(teams[n]) + C35_Rostered(n - 1)

C35_RostersMatchPicks ==
    /\ \A t \in 1..Len(teams) :
          /\ Held(teams[t]) =
                {picks[i].playerId :
                    i \in {j \in 1..Len(picks) : picks[j].teamId = teams[t].id}}
          /\ Cardinality(Held(teams[t])) = C35_RosterSize(teams[t])
    /\ \A t, u \in 1..Len(teams) :
          t # u => Held(teams[t]) \cap Held(teams[u]) = {}
    /\ C35_Rostered(Len(teams)) = Len(picks)

\* a pick was undone and two teams hold players, one of them two in a slot
C35_Witness ==
    /\ undone > 0
    /\ Len(teams) = 2
    /\ Held(teams[1]) # {} /\ Held(teams[2]) # {}
    /\ \E t \in 1..2, slot \in RosterSlots : Len(teams[t].roster[slot]) >= 2

(***************************************************************************)
(* C36: in every reachable state a connection is bound to at most one      *)
(* identity: no two teams have the same connection as socketId, and no     *)
(* connection is the socketId of a team and of a spectator.                *)
(***************************************************************************)
C36_OneIdentityPerConnection ==
    /\ \A t, u \in 1..Len(teams) :
          (t # u /\ teams[t].socketId # NoSocket)
              => teams[t].socketId # teams[u].socketId
    /\ \A t \in 1..Len(teams), w \in 1..Len(watchers) :
          teams[t].socketId # NoSocket => teams[t].socketId # watchers[w].socketId

(***************************************************************************)
(* C37 as stated: in every reachable state no name is held, ignoring case, *)
(* by a team and by a spectator, whichever of the two registered first.    *)
(***************************************************************************)
C37_Original ==
    \A t \in 1..Len(teams), w \in 1..Len(watchers) :
        toLowerCase(teams[t].name) # toLowerCase(watchers[w].name)

(***************************************************************************)
(* C37, amended: no name is held, ignoring case, by a team and by a        *)
(* spectator that registered after the team: a spectator whose name a team  *)
(* held before a step was a spectator of that name before the step.  (A    *)
(* team may register the name a spectator holds.)                          *)
(***************************************************************************)
C37_Step ==
    \A w \in 1..Len(watchers') :
        (\E t \in 1..Len(teams) :
            toLowerCase(teams[t].name) = toLowerCase(watchers'[w].name))
        => /\ w \in 1..Len(watchers)
           /\ watchers[w].name = watchers'[w].name

C37_NoSpectatorAfterTeam == [][C37_Step]_vars

\* a team registered the name a spectator holds, and a later registration
\* of a spectator with that name was refused
C37_Witness ==
    /\ \E t \in 1..Len(teams), w \in 1..Len(watchers) :
          toLowerCase(teams[t].name) = toLowerCase(watchers[w].name)
    /\ \E s \in Sockets : out = <<Error(s, ErrNameIsTeam)>>

(***************************************************************************)
(* C38: whenever the phase is drafting, currentPickIndex is less than the  *)
(* length of draftOrder and getCurrentPicker() is a registered team, the   *)
(* one whose id is at that position of the order; getCurrentPicker() is    *)
(* null exactly when the phase is not drafting.                            *)
(***************************************************************************)
C38_PickerWhileDrafting ==
    /\ phase = "drafting" =>
          /\ currentPickIndex < Len(draftOrder)
          /\ getCurrentPicker \in 1..Len(teams)
          /\ teams[getCurrentPicker].id = draftOrder[currentPickIndex + 1]
    /\ getCurrentPicker = 0 <=> phase # "drafting"

\* the last position of the order is on the clock again after an undo
C38_Witness ==
    /\ phase = "drafting" /\ undone > 0
    /\ currentPickIndex = Len(draftOrder) - 1

(***************************************************************************)
(* C39: a page that receives a snapshot whose draft id differs from the    *)
(* draft id it saved, or that has a saved team or spectator name and no    *)
(* saved draft id, clears its saved identity and sends no join request;    *)
(* a page sends a join request for a snapshot only when its saved draft id *)
(* is the snapshot's, and the request carries its saved name.              *)
(***************************************************************************)
C39_NoIdentity(s) ==
    /\ storage'[s].playoffDraftTeamName = NoName
    /\ storage'[s].playoffDraftTeamId = null
    /\ storage'[s].playoffDraftWatcherName = NoName
    /\ storage'[s].playoffDraftWatcherId = null
    /\ localState'[s].myTeamId = null
    /\ localState'[s].myTeamName = NoName
    /\ localState'[s].myWatcherId = null
    /\ localState'[s].myWatcherName = NoName
    /\ ~localState'[s].isWatcher

C39_Step ==
    \A s \in Sockets :
        OnDraftStateUpdated(s) =>
        LET token == Head(inbox[s]).state.draftId
            savedId == storage[s].playoffDraftId
            teamName == storage[s].playoffDraftTeamName
            watcherName == storage[s].playoffDraftWatcherName
        IN  /\ ((savedId # null /\ savedId # token)
                  \/ (savedId = null /\ (teamName # NoName \/ watcherName # NoName)))
               => C39_NoIdentity(s) /\ requests' = requests
            /\ requests' # requests
               => /\ savedId = token
                  /\ \/ /\ teamName # NoName
                        /\ requests' = [requests EXCEPT
                                           ![s] = Append(@, JoinDraftRequest(teamName))]
                     \/ /\ watcherName # NoName
                        /\ requests' = [requests EXCEPT
                                           ![s] = Append(@, JoinAsWatcherRequest(watcherName))]

C39_StaleSessionCleared == [][C39_Step]_vars

\* one page detected a stale session and holds no identity, the other page
\* joined its team again
C39_Witness ==
    \E s, t \in Sockets :
        /\ localState[s].staleLogged
        /\ storage[s] = [EmptyStorage EXCEPT !.playoffDraftId = DRAFT_ID]
        /\ requests[s] = <<>>
        /\ localState[t].myTeamId # null

(***************************************************************************)
(* C40: the automatic re-join comes to rest.  Every page that is loaded    *)
(* with the name of a team of the current session is at some time bound to *)
(* that team by the server (a page loaded later with the same name then    *)
(* takes the team over); from some point on no message is on its way, every *)
(* page that holds a team name knows its team and sends no further join    *)
(* request; and at no time more than two join requests of a page or five   *)
(* messages for a page are on their way.                                   *)
(***************************************************************************)
C40_HoldsTeamName(s) ==
    /\ storage[s].playoffDraftId = DRAFT_ID
    /\ storage[s].playoffDraftTeamName # NoName

C40_BoundToTeam(s) ==
    \E t \in 1..Len(teams) :
        teams[t].name = storage[s].playoffDraftTeamName /\ teams[t].socketId = s

C40_InFlightBounded ==
    \A s \in Sockets : Len(requests[s]) <= 2 /\ Len(inbox[s]) <= 5

C40_Quiet ==
    /\ out = <<>>
    /\ \A s \in Sockets :
          /\ inbox[s] = <<>> /\ requests[s] = <<>>
          /\ C40_HoldsTeamName(s) =>
                localState[s].myTeamId # null /\ Reconnects(s) = <<>>

C40_RejoinQuiesces ==
    /\ []C40_InFlightBounded
    /\ \A s \in Sockets : C40_HoldsTeamName(s) => <>C40_BoundToTeam(s)
    /\ <>[]C40_Quiet

\* both pages hold a team name, are joined again, and nothing is on its way
C40_Witness ==
    /\ C40_Quiet
    /\ \A s \in Sockets : C40_HoldsTeamName(s) /\ localState[s].myTeamId # null

====
